---------------------------- MODULE Spec2Model ----------------------------
(***************************************************************************)
(* Speech-prompt form application: the form session of AppContent (its     *)
(* React state, its event handlers and the continuations of its model      *)
(* calls), the request builder and response normalizer of generatePrompt,  *)
(* the suggestion helpers and prettyErrorMessage.                          *)
(*                                                                         *)
(* Text is modelled as a sequence of characters (one-character strings),   *)
(* so that trim, parseInt, startsWith, substring search and JSON parsing   *)
(* are computed as JavaScript computes them.  The localized UI strings     *)
(* (T.xxx, module ./i18n) are opaque one-symbol texts.  Record ids         *)
(* (`char-<uuid>`, `line-<uuid>`) are strings built from a fresh counter.  *)
(***************************************************************************)
EXTENDS Integers, Sequences, FiniteSets, Bags, TLC

VARIABLES
  appKey,               \* App: key of the mounted AppContent (the form session)
  speechType,           \* AppContent state
  scenario,
  scenarioTheme,
  duration,
  numberOfSections,
  persona,
  emotion,
  tone,
  environment,
  characters,
  script,
  generatedPrompts,     \* UI state
  isLoading,
  error,
  isSuggesting,
  suggestingImageTouch,
  calls,                \* the bag of model calls awaiting the boundary
  nextId,               \* source of fresh ids (crypto.randomUUID)
  settled               \* the model call whose continuation ran in the last step,
                        \* if one did: what the boundary answered and what the
                        \* service function returned or threw

formVars == <<speechType, scenario, scenarioTheme, duration, numberOfSections,
              persona, emotion, tone, environment, characters, script>>
uiVars == <<generatedPrompts, isLoading, error, isSuggesting, suggestingImageTouch>>
vars == <<appKey, formVars, uiVars, calls, nextId, settled>>

-----------------------------------------------------------------------------
(* Bounds of the model *)

MaxChars == 2        \* characters in the form (dialogue requests)
MaxLines == 2        \* script lines in the form
MaxDurLen == 3       \* characters typed into the duration field
MaxCalls == 2        \* model calls outstanding at once
MaxIds == 4          \* ids drawn from crypto.randomUUID in one run
MaxSessions == 2     \* form sessions (values of appKey) in one run

-----------------------------------------------------------------------------
(* JavaScript strings *)

S0 == <<>>                      \* the empty string ''
NullText == <<"null">>          \* null in a slot of type string | null (text)
Undefined == <<"undefined">>    \* undefined stored in a text slot
NullStr == "null"               \* null in a slot holding an id or a tag
NullObj == [null |-> TRUE]      \* null in a slot holding an object

WhiteSpace == {" ", "\n", "\t", "\r"}
Digits == <<"0", "1", "2", "3", "4", "5", "6", "7", "8", "9">>
IsDigit(c) == \E d \in 1..10 : Digits[d] = c
DigitValue(c) == (CHOOSE d \in 1..10 : Digits[d] = c) - 1

SetMin(S) == CHOOSE x \in S : \A y \in S : x <= y
SetMax(S) == CHOOSE x \in S : \A y \in S : x >= y

\* String.prototype.trim
trim(s) ==
  LET keep == {i \in 1..Len(s) : s[i] \notin WhiteSpace}
  IN  IF keep = {} THEN S0 ELSE SubSeq(s, SetMin(keep), SetMax(keep))

\* String.prototype.startsWith
startsWith(s, p) == Len(p) <= Len(s) /\ SubSeq(s, 1, Len(p)) = p

\* String.prototype.substring(n): the text after the first n characters
substring(s, n) == SubSeq(s, n + 1, Len(s))

\* String(n) of an integer
RECURSIVE NatToStr(_)
NatToStr(n) ==
  IF n < 10 THEN <<Digits[n + 1]>> ELSE NatToStr(n \div 10) \o <<Digits[(n % 10) + 1]>>
NumToStr(n) == IF n < 0 THEN <<"-">> \o NatToStr(0 - n) ELSE NatToStr(n)

\* Array.prototype.join over texts
RECURSIVE join(_, _)
join(xs, sep) ==
  IF Len(xs) = 0 THEN S0
  ELSE IF Len(xs) = 1 THEN xs[1]
  ELSE xs[1] \o sep \o join(Tail(xs), sep)

\* parseInt(s, 10): leading white space is skipped, then an optional sign, then
\* the longest run of digits; NaN when there is no digit.
RECURSIVE DigitRun(_, _)
DigitRun(s, i) == IF i <= Len(s) /\ IsDigit(s[i]) THEN DigitRun(s, i + 1) ELSE i
RECURSIVE DigitsValue(_, _, _)
DigitsValue(s, i, j) ==
  IF j < i THEN 0 ELSE 10 * DigitsValue(s, i, j - 1) + DigitValue(s[j])
NaN == [nan |-> TRUE, n |-> 0]
parseInt(s) ==
  LET ns == {i \in 1..Len(s) : s[i] \notin WhiteSpace}
      b == IF ns = {} THEN Len(s) + 1 ELSE SetMin(ns)
      signed == b <= Len(s) /\ s[b] \in {"-", "+"}
      d == IF signed THEN b + 1 ELSE b
      e == DigitRun(s, d)
      mag == DigitsValue(s, d, e - 1)
  IN  IF e = d THEN NaN
      ELSE [nan |-> FALSE, n |-> IF signed /\ s[b] = "-" THEN 0 - mag ELSE mag]

-----------------------------------------------------------------------------
(* JSON values, JSON.parse and JSON.stringify *)

\* A JavaScript value as JSON.parse produces it.  t is the kind; s the text of
\* a string; n the value of a number; kv the members of an object in insertion
\* order, as <<key, value>> pairs, or the elements of an array (key S0).
JV(t, s, n, kv) == [t |-> t, s |-> s, n |-> n, kv |-> kv]
JUndefined == JV("undefined", S0, 0, <<>>)
JNull == JV("null", S0, 0, <<>>)
JTrue == JV("true", S0, 0, <<>>)
JFalse == JV("false", S0, 0, <<>>)
JNum(n) == JV("num", S0, n, <<>>)
JStr(s) == JV("str", s, 0, <<>>)
JObj(kv) == JV("obj", S0, 0, kv)
JArr(kv) == JV("arr", S0, 0, kv)

\* v[k]: property k of a value (own members of an object only)
HasKey(v, k) == v.t = "obj" /\ \E i \in 1..Len(v.kv) : v.kv[i][1] = k
Get(v, k) ==
  IF HasKey(v, k)
  THEN v.kv[CHOOSE i \in 1..Len(v.kv) : v.kv[i][1] = k][2]
  ELSE JUndefined
\* v.k throws a TypeError when v is null or undefined
Throws(v) == v.t \in {"null", "undefined"}
\* ToBoolean
Truthy(v) ==
  CASE v.t \in {"null", "undefined", "false"} -> FALSE
    [] v.t = "num" -> v.n # 0
    [] v.t = "str" -> v.s # S0
    [] OTHER -> TRUE
\* a || b
OrElse(a, b) == IF Truthy(a) THEN a ELSE b

\* obj[k] = v while parsing: a repeated key keeps its place and takes the last value
SetKey(kv, k, v) ==
  IF \E i \in 1..Len(kv) : kv[i][1] = k
  THEN [i \in 1..Len(kv) |-> IF kv[i][1] = k THEN <<k, v>> ELSE kv[i]]
  ELSE Append(kv, <<k, v>>)

\* String(v), as a template literal `${v}` renders a value
RECURSIVE ToStr(_)
ToStr(v) ==
  CASE v.t = "str" -> v.s
    [] v.t = "num" -> NumToStr(v.n)
    [] v.t = "obj" -> <<"[", "o", "b", "j", "e", "c", "t", " ", "O", "b", "j", "e", "c", "t", "]">>
    [] v.t = "arr" ->
         join([i \in 1..Len(v.kv) |->
                 IF Throws(v.kv[i][2]) THEN S0 ELSE ToStr(v.kv[i][2])], <<",">>)
    [] v.t = "null" -> <<"n", "u", "l", "l">>
    [] v.t = "true" -> <<"t", "r", "u", "e">>
    [] v.t = "false" -> <<"f", "a", "l", "s", "e">>
    [] OTHER -> <<"u", "n", "d", "e", "f", "i", "n", "e", "d">>

\* a quoting that leaves every character as it is
RawChars(s) == s
\* JSON.stringify(v): the compact form
RECURSIVE QuoteChars(_)
QuoteChars(s) ==
  IF s = S0 THEN S0
  ELSE (CASE Head(s) = "\"" -> <<"\\", "\"">>
          [] Head(s) = "\\" -> <<"\\", "\\">>
          [] Head(s) = "\n" -> <<"\\", "n">>
          [] Head(s) = "\t" -> <<"\\", "t">>
          [] OTHER -> <<Head(s)>>) \o QuoteChars(Tail(s))
Quote(s) == <<"\"">> \o QuoteChars(s) \o <<"\"">>
\* the order in which an object's own members are enumerated: the keys that
\* are array indices in increasing value, then the others as they were created
\* (an index is below 2^32 - 1; the keys here have at most nine digits)
IsIndexKey(k) ==
  /\ k # S0
  /\ \A i \in 1..Len(k) : IsDigit(k[i])
  /\ Len(k) = 1 \/ k[1] # "0"
  /\ Len(k) <= 9
OrderedMembers(kv) ==
  LET index == {i \in 1..Len(kv) : IsIndexKey(kv[i][1])}
      named == (1..Len(kv)) \ index
      value(i) == DigitsValue(kv[i][1], 1, Len(kv[i][1]))
  IN  [n \in 1..Len(kv) |->
         IF n <= Cardinality(index)
         THEN kv[CHOOSE i \in index :
                   Cardinality({j \in index : value(j) < value(i)}) = n - 1]
         ELSE kv[CHOOSE i \in named :
                   Cardinality({j \in named : j < i}) = n - Cardinality(index) - 1]]
RECURSIVE stringify(_)
stringify(v) ==
  CASE v.t = "str" -> Quote(v.s)
    [] v.t = "num" -> NumToStr(v.n)
    [] v.t = "obj" ->
         <<"{">> \o join([i \in 1..Len(v.kv) |->
                            Quote(OrderedMembers(v.kv)[i][1]) \o <<":">>
                              \o stringify(OrderedMembers(v.kv)[i][2])], <<",">>)
                 \o <<"}">>
    [] v.t = "arr" ->
         <<"[">> \o join([i \in 1..Len(v.kv) |-> stringify(v.kv[i][2])], <<",">>) \o <<"]">>
    [] OTHER -> ToStr(v)

\* JSON.stringify(v, null, 2): every member and element on a line of its own,
\* two spaces deeper than what holds it; {} and [] when there is none
RECURSIVE Serialize(_, _)
Serialize(v, indent) ==
  CASE v.t = "str" -> Quote(v.s)
    [] v.t = "num" -> NumToStr(v.n)
    [] v.t = "obj" /\ v.kv # <<>> ->
         <<"{", "\n", " ", " ">> \o indent
           \o join([i \in 1..Len(v.kv) |->
                      Quote(OrderedMembers(v.kv)[i][1]) \o <<":", " ">>
                        \o Serialize(OrderedMembers(v.kv)[i][2], indent \o <<" ", " ">>)],
                   <<",", "\n", " ", " ">> \o indent)
           \o <<"\n">> \o indent \o <<"}">>
    [] v.t = "obj" -> <<"{", "}">>
    [] v.t = "arr" /\ v.kv # <<>> ->
         <<"[", "\n", " ", " ">> \o indent
           \o join([i \in 1..Len(v.kv) |->
                      Serialize(v.kv[i][2], indent \o <<" ", " ">>)],
                   <<",", "\n", " ", " ">> \o indent)
           \o <<"\n">> \o indent \o <<"]">>
    [] v.t = "arr" -> <<"[", "]">>
    [] OTHER -> ToStr(v)
stringifyIndented(v) == Serialize(v, S0)

\* JSON.parse(s).  A parse step answers [ok, v, i]: on success the value and the
\* index after it; on failure i is the index of the offending character
\* (Len(s) + 1 at the end of the input).
POk(v, i) == [ok |-> TRUE, v |-> v, i |-> i]
PFail(i) == [ok |-> FALSE, v |-> JUndefined, i |-> i]

RECURSIVE SkipWs(_, _)
SkipWs(s, i) == IF i <= Len(s) /\ s[i] \in WhiteSpace THEN SkipWs(s, i + 1) ELSE i

\* the characters of word w expected at s[i..]
RECURSIVE ParseWord(_, _, _, _)
ParseWord(s, i, w, v) ==
  IF w = S0 THEN POk(v, i)
  ELSE IF i <= Len(s) /\ s[i] = Head(w) THEN ParseWord(s, i + 1, Tail(w), v)
  ELSE PFail(i)

\* after the opening quote: the characters up to the closing quote
RECURSIVE ParseChars(_, _, _)
ParseChars(s, i, acc) ==
  IF i > Len(s) THEN PFail(i)
  ELSE IF s[i] = "\"" THEN POk(JStr(acc), i + 1)
  ELSE IF s[i] \in {"\n", "\t", "\r"} THEN PFail(i)
  ELSE IF s[i] = "\\"
       THEN IF i + 1 > Len(s) THEN PFail(i + 1)
            ELSE IF s[i + 1] \in {"\"", "\\", "/"}
                 THEN ParseChars(s, i + 2, Append(acc, s[i + 1]))
            ELSE IF s[i + 1] = "n" THEN ParseChars(s, i + 2, Append(acc, "\n"))
            ELSE IF s[i + 1] = "t" THEN ParseChars(s, i + 2, Append(acc, "\t"))
            ELSE PFail(i + 1)
  ELSE ParseChars(s, i + 1, Append(acc, s[i]))

\* an integer: -? (0 | [1-9][0-9]*)
ParseNumber(s, i) ==
  LET d == IF s[i] = "-" THEN i + 1 ELSE i
      e == DigitRun(s, d)
      mag == DigitsValue(s, d, e - 1)
  IN  IF e = d THEN PFail(d)
      ELSE IF s[d] = "0" /\ e > d + 1 THEN PFail(d + 1)
      ELSE POk(JNum(IF s[i] = "-" THEN 0 - mag ELSE mag), e)

\* One value at s[i..]; an object's members and an array's elements are read
\* one at a time, each step handing what it read to the next.
RECURSIVE ParseValue(_, _), ParseMembers(_, _, _), MemberKey(_, _, _),
          MemberColon(_, _, _, _), MemberValue(_, _, _, _), MemberEnd(_, _, _),
          ParseElements(_, _, _), ElementValue(_, _, _), ElementEnd(_, _, _)
ValueAt(s, j) ==
  IF j > Len(s) THEN PFail(j)
  ELSE CASE s[j] = "{" ->
              IF SkipWs(s, j + 1) <= Len(s) /\ s[SkipWs(s, j + 1)] = "}"
              THEN POk(JObj(<<>>), SkipWs(s, j + 1) + 1)
              ELSE ParseMembers(s, SkipWs(s, j + 1), <<>>)
         [] s[j] = "[" ->
              IF SkipWs(s, j + 1) <= Len(s) /\ s[SkipWs(s, j + 1)] = "]"
              THEN POk(JArr(<<>>), SkipWs(s, j + 1) + 1)
              ELSE ParseElements(s, SkipWs(s, j + 1), <<>>)
         [] s[j] = "\"" -> ParseChars(s, j + 1, S0)
         [] s[j] = "-" \/ IsDigit(s[j]) -> ParseNumber(s, j)
         [] s[j] = "n" -> ParseWord(s, j, <<"n", "u", "l", "l">>, JNull)
         [] s[j] = "t" -> ParseWord(s, j, <<"t", "r", "u", "e">>, JTrue)
         [] s[j] = "f" -> ParseWord(s, j, <<"f", "a", "l", "s", "e">>, JFalse)
         [] OTHER -> PFail(j)
ParseValue(s, i) == ValueAt(s, SkipWs(s, i))
\* at a member: "key" : value, then , or }
ParseMembers(s, i, acc) ==
  IF i > Len(s) \/ s[i] # "\"" THEN PFail(i)
  ELSE MemberKey(s, acc, ParseChars(s, i + 1, S0))
MemberKey(s, acc, key) ==
  IF ~key.ok THEN key ELSE MemberColon(s, acc, key.v.s, SkipWs(s, key.i))
MemberColon(s, acc, k, c) ==
  IF c > Len(s) \/ s[c] # ":" THEN PFail(c)
  ELSE MemberValue(s, acc, k, ParseValue(s, c + 1))
MemberValue(s, acc, k, val) ==
  IF ~val.ok THEN val ELSE MemberEnd(s, SetKey(acc, k, val.v), SkipWs(s, val.i))
MemberEnd(s, kv, e) ==
  IF e > Len(s) THEN PFail(e)
  ELSE IF s[e] = "}" THEN POk(JObj(kv), e + 1)
  ELSE IF s[e] = "," THEN ParseMembers(s, SkipWs(s, e + 1), kv)
  ELSE PFail(e)
\* at an element, then , or ]
ParseElements(s, i, acc) == ElementValue(s, acc, ParseValue(s, i))
ElementValue(s, acc, val) ==
  IF ~val.ok THEN val ELSE ElementEnd(s, Append(acc, <<S0, val.v>>), SkipWs(s, val.i))
ElementEnd(s, kv, e) ==
  IF e > Len(s) THEN PFail(e)
  ELSE IF s[e] = "]" THEN POk(JArr(kv), e + 1)
  ELSE IF s[e] = "," THEN ParseElements(s, e + 1, kv)
  ELSE PFail(e)

\* JSON.parse: one value, then nothing but white space.  On failure `message`
\* is the SyntaxError's message (as V8 words it).
UnexpectedEnd ==
  <<"U", "n", "e", "x", "p", "e", "c", "t", "e", "d", " ", "e", "n", "d", " ", "o", "f", " ",
    "J", "S", "O", "N", " ", "i", "n", "p", "u", "t">>
UnexpectedToken(c, at) ==
  <<"U", "n", "e", "x", "p", "e", "c", "t", "e", "d", " ", "t", "o", "k", "e", "n", " ", c, " ",
    "i", "n", " ", "J", "S", "O", "N", " ", "a", "t", " ", "p", "o", "s", "i", "t", "i", "o", "n",
    " ">> \o NumToStr(at)
SyntaxError(s, e) ==
  [ok |-> FALSE, v |-> JUndefined,
   message |-> IF e > Len(s) THEN UnexpectedEnd ELSE UnexpectedToken(s[e], e - 1)]
Parsed(s, r) ==
  IF ~r.ok THEN SyntaxError(s, r.i)
  ELSE IF SkipWs(s, r.i) <= Len(s) THEN SyntaxError(s, SkipWs(s, r.i))
  ELSE [ok |-> TRUE, v |-> r.v, message |-> S0]
JSONparse(s) == Parsed(s, ParseValue(s, 1))

-----------------------------------------------------------------------------
(* Request Builder: the literal text of generatePrompt's templates *)

\* '\n      Generate a speech prompt for a narration.\n      - Scenario: ', up to ${r.scenario}
NarrationText1 ==
  <<"\n"," "," "," "," "," "," ","G","e","n","e","r","a","t","e"," ","a"," ","s","p","e","e",
    "c","h"," ","p","r","o","m","p","t"," ","f","o","r"," ","a"," ","n","a","r","r","a","t","i",
    "o","n",".","\n"," "," "," "," "," "," ","-"," ","S","c","e","n","a","r","i","o",":"," ">>

\* "\n      - Narrator's Persona: ", up to ${r.persona}
NarrationText2 ==
  <<"\n"," "," "," "," "," "," ","-"," ","N","a","r","r","a","t","o","r","'","s"," ","P","e",
    "r","s","o","n","a",":"," ">>

\* '\n      - Primary Emotion: ', up to ${r.emotion}
NarrationText3 ==
  <<"\n"," "," "," "," "," "," ","-"," ","P","r","i","m","a","r","y"," ","E","m","o","t","i",
    "o","n",":"," ">>

\* '\n      - Vocal Tones: ', up to ${r.tone}
NarrationText4 ==
  <<"\n"," "," "," "," "," "," ","-"," ","V","o","c","a","l"," ","T","o","n","e","s",":"," ">>

\* '\n      - Environment: ', up to ${r.environment}
NarrationText5 ==
  <<"\n"," "," "," "," "," "," ","-"," ","E","n","v","i","r","o","n","m","e","n","t",":"," ">>

\* '\n      The narration should be descriptive, immersive, and set a clear mood based on these details. The environment should influence the tone and description.', up to ${durationConstraint(r.duration)}
NarrationText6 ==
  <<"\n"," "," "," "," "," "," ","T","h","e"," ","n","a","r","r","a","t","i","o","n"," ","s",
    "h","o","u","l","d"," ","b","e"," ","d","e","s","c","r","i","p","t","i","v","e",","," ","i",
    "m","m","e","r","s","i","v","e",","," ","a","n","d"," ","s","e","t"," ","a"," ","c","l","e",
    "a","r"," ","m","o","o","d"," ","b","a","s","e","d"," ","o","n"," ","t","h","e","s","e"," ",
    "d","e","t","a","i","l","s","."," ","T","h","e"," ","e","n","v","i","r","o","n","m","e","n",
    "t"," ","s","h","o","u","l","d"," ","i","n","f","l","u","e","n","c","e"," ","t","h","e"," ",
    "t","o","n","e"," ","a","n","d"," ","d","e","s","c","r","i","p","t","i","o","n",".">>

\* '\n          Generate and format a speech prompt for a dialogue based on the user-provided script.\n          - Scenario: ', up to ${r.scenario}
FormatText1 ==
  <<"\n"," "," "," "," "," "," "," "," "," "," ","G","e","n","e","r","a","t","e"," ","a","n",
    "d"," ","f","o","r","m","a","t"," ","a"," ","s","p","e","e","c","h"," ","p","r","o","m","p",
    "t"," ","f","o","r"," ","a"," ","d","i","a","l","o","g","u","e"," ","b","a","s","e","d"," ",
    "o","n"," ","t","h","e"," ","u","s","e","r","-","p","r","o","v","i","d","e","d"," ","s","c",
    "r","i","p","t",".","\n"," "," "," "," "," "," "," "," "," "," ","-"," ","S","c","e","n",
    "a","r","i","o",":"," ">>

\* '\n          - Characters:\n', up to ${characterDescriptions}
FormatText2 ==
  <<"\n"," "," "," "," "," "," "," "," "," "," ","-"," ","C","h","a","r","a","c","t","e","r",
    "s",":","\n">>

\* '\n          - User-provided Script:\n', up to ${scriptContent}
FormatText3 ==
  <<"\n"," "," "," "," "," "," "," "," "," "," ","-"," ","U","s","e","r","-","p","r","o","v",
    "i","d","e","d"," ","S","c","r","i","p","t",":","\n">>

\* "\n          \n          Your task is to take the provided script and format it perfectly into the required JSON structure.\n          Refine the emotion and tone descriptions to be more evocative and detailed where appropriate, but strictly adhere to the dialogue lines and character assignments from the script.\n          The 'integrated_text' should be a clean, readable script format of the final dialogue.", up to ${durationConstraint(r.duration)}
FormatText4 ==
  <<"\n"," "," "," "," "," "," "," "," "," "," ","\n"," "," "," "," "," "," "," "," "," "," ",
    "Y","o","u","r"," ","t","a","s","k"," ","i","s"," ","t","o"," ","t","a","k","e"," ","t","h",
    "e"," ","p","r","o","v","i","d","e","d"," ","s","c","r","i","p","t"," ","a","n","d"," ","f",
    "o","r","m","a","t"," ","i","t"," ","p","e","r","f","e","c","t","l","y"," ","i","n","t","o",
    " ","t","h","e"," ","r","e","q","u","i","r","e","d"," ","J","S","O","N"," ","s","t","r","u",
    "c","t","u","r","e",".","\n"," "," "," "," "," "," "," "," "," "," ","R","e","f","i","n",
    "e"," ","t","h","e"," ","e","m","o","t","i","o","n"," ","a","n","d"," ","t","o","n","e"," ",
    "d","e","s","c","r","i","p","t","i","o","n","s"," ","t","o"," ","b","e"," ","m","o","r","e",
    " ","e","v","o","c","a","t","i","v","e"," ","a","n","d"," ","d","e","t","a","i","l","e","d",
    " ","w","h","e","r","e"," ","a","p","p","r","o","p","r","i","a","t","e",","," ","b","u","t",
    " ","s","t","r","i","c","t","l","y"," ","a","d","h","e","r","e"," ","t","o"," ","t","h","e",
    " ","d","i","a","l","o","g","u","e"," ","l","i","n","e","s"," ","a","n","d"," ","c","h","a",
    "r","a","c","t","e","r"," ","a","s","s","i","g","n","m","e","n","t","s"," ","f","r","o","m",
    " ","t","h","e"," ","s","c","r","i","p","t",".","\n"," "," "," "," "," "," "," "," "," ",
    " ","T","h","e"," ","'","i","n","t","e","g","r","a","t","e","d","_","t","e","x","t","'"," ",
    "s","h","o","u","l","d"," ","b","e"," ","a"," ","c","l","e","a","n",","," ","r","e","a","d",
    "a","b","l","e"," ","s","c","r","i","p","t"," ","f","o","r","m","a","t"," ","o","f"," ","t",
    "h","e"," ","f","i","n","a","l"," ","d","i","a","l","o","g","u","e",".">>

\* '\n          Generate a speech prompt for a dialogue.\n          - Scenario: ', up to ${r.scenario}
ScratchText1 ==
  <<"\n"," "," "," "," "," "," "," "," "," "," ","G","e","n","e","r","a","t","e"," ","a"," ",
    "s","p","e","e","c","h"," ","p","r","o","m","p","t"," ","f","o","r"," ","a"," ","d","i","a",
    "l","o","g","u","e",".","\n"," "," "," "," "," "," "," "," "," "," ","-"," ","S","c","e",
    "n","a","r","i","o",":"," ">>

\* '\n          - Characters:\n', up to ${characterDescriptions}
ScratchText2 ==
  <<"\n"," "," "," "," "," "," "," "," "," "," ","-"," ","C","h","a","r","a","c","t","e","r",
    "s",":","\n">>

\* '\n          The dialogue should be dramatic and engaging. Each line in the script must have a specified character, the line of dialogue, a primary emotion, and a specific tone/direction.\n          Generate a complete script from scratch based on the scenario and characters provided.', up to ${durationConstraint(r.duration)}
ScratchText3 ==
  <<"\n"," "," "," "," "," "," "," "," "," "," ","T","h","e"," ","d","i","a","l","o","g","u",
    "e"," ","s","h","o","u","l","d"," ","b","e"," ","d","r","a","m","a","t","i","c"," ","a","n",
    "d"," ","e","n","g","a","g","i","n","g","."," ","E","a","c","h"," ","l","i","n","e"," ","i",
    "n"," ","t","h","e"," ","s","c","r","i","p","t"," ","m","u","s","t"," ","h","a","v","e"," ",
    "a"," ","s","p","e","c","i","f","i","e","d"," ","c","h","a","r","a","c","t","e","r",","," ",
    "t","h","e"," ","l","i","n","e"," ","o","f"," ","d","i","a","l","o","g","u","e",","," ","a",
    " ","p","r","i","m","a","r","y"," ","e","m","o","t","i","o","n",","," ","a","n","d"," ","a",
    " ","s","p","e","c","i","f","i","c"," ","t","o","n","e","/","d","i","r","e","c","t","i","o",
    "n",".","\n"," "," "," "," "," "," "," "," "," "," ","G","e","n","e","r","a","t","e"," ",
    "a"," ","c","o","m","p","l","e","t","e"," ","s","c","r","i","p","t"," ","f","r","o","m"," ",
    "s","c","r","a","t","c","h"," ","b","a","s","e","d"," ","o","n"," ","t","h","e"," ","s","c",
    "e","n","a","r","i","o"," ","a","n","d"," ","c","h","a","r","a","c","t","e","r","s"," ","p",
    "r","o","v","i","d","e","d",".">>

\* '\n- The total length should be approximately '
DurationText1 ==
  <<"\n","-"," ","T","h","e"," ","t","o","t","a","l"," ","l","e","n","g","t","h"," ","s","h",
    "o","u","l","d"," ","b","e"," ","a","p","p","r","o","x","i","m","a","t","e","l","y"," ">>

\* ' seconds.'
DurationText2 ==
  <<" ","s","e","c","o","n","d","s",".">>

\* 'Unknown Character'
UnknownCharacter ==
  <<"U","n","k","n","o","w","n"," ","C","h","a","r","a","c","t","e","r">>

\* 'not specified'
NotSpecified ==
  <<"n","o","t"," ","s","p","e","c","i","f","i","e","d">>

\* ': "'
LineText2 ==
  <<":"," ","\"">>

\* '" (Emotion: '
LineText3 ==
  <<"\""," ","(","E","m","o","t","i","o","n",":"," ">>

\* ', Tone: '
LineText4 ==
  <<","," ","T","o","n","e",":"," ">>

\* ')'
LineText5 ==
  <<")">>

\* 'Failed to generate integrated text.'
FallbackIntegrated ==
  <<"F","a","i","l","e","d"," ","t","o"," ","g","e","n","e","r","a","t","e"," ","i","n","t","e",
    "g","r","a","t","e","d"," ","t","e","x","t",".">>

\* 'Gemini API Error: '
GeminiApiError ==
  <<"G","e","m","i","n","i"," ","A","P","I"," ","E","r","r","o","r",":"," ">>

\* 'An unknown error occurred while contacting the Gemini API.'
UnknownError ==
  <<"A","n"," ","u","n","k","n","o","w","n"," ","e","r","r","o","r"," ","o","c","c","u","r","r",
    "e","d"," ","w","h","i","l","e"," ","c","o","n","t","a","c","t","i","n","g"," ","t","h","e",
    " ","G","e","m","i","n","i"," ","A","P","I",".">>

\* 'Failed to generate scenario suggestion.'
ScenarioSuggestionFailed ==
  <<"F","a","i","l","e","d"," ","t","o"," ","g","e","n","e","r","a","t","e"," ","s","c","e","n",
    "a","r","i","o"," ","s","u","g","g","e","s","t","i","o","n",".">>

\* 'Failed to generate narrator details.'
NarratorDetailsFailed ==
  <<"F","a","i","l","e","d"," ","t","o"," ","g","e","n","e","r","a","t","e"," ","n","a","r","r",
    "a","t","o","r"," ","d","e","t","a","i","l","s",".">>

\* 'Failed to generate image touch suggestion.'
ImageTouchFailed ==
  <<"F","a","i","l","e","d"," ","t","o"," ","g","e","n","e","r","a","t","e"," ","i","m","a","g",
    "e"," ","t","o","u","c","h"," ","s","u","g","g","e","s","t","i","o","n",".">>

-----------------------------------------------------------------------------
(* Request Builder: generatePrompt up to the model call *)

NARRATION == "NARRATION"        \* SpeechType
ONE_ON_ONE == "ONE_ON_ONE"
MULTI == "MULTI"
SpeechTypes == {NARRATION, ONE_ON_ONE, MULTI}

\* A PromptRequest.  A NarrationRequest carries no characters and no script, a
\* DialogueRequest no persona, emotion, tone or environment: those fields are
\* empty here.
Request(type, scn, per, emo, ton, env, chars, scr, dur, secs) ==
  [type |-> type, scenario |-> scn, persona |-> per, emotion |-> emo, tone |-> ton,
   environment |-> env, characters |-> chars, script |-> scr, duration |-> dur,
   numberOfSections |-> secs]
NoRequest == Request(NullStr, S0, S0, S0, S0, S0, <<>>, <<>>, S0, S0)

durationConstraint(dur) ==
  IF dur = S0 THEN S0
  ELSE LET parsedDuration == parseInt(dur)
       IN  IF ~parsedDuration.nan /\ parsedDuration.n > 0
           THEN DurationText1 \o NumToStr(parsedDuration.n) \o DurationText2
           ELSE S0

characterDescriptions(r) ==
  join([i \in 1..Len(r.characters) |->
          <<"-", " ">> \o r.characters[i].name \o <<":", " ">> \o r.characters[i].persona],
       <<"\n">>)

IsBlank(s) == trim(s) = S0
LineHasText(l) == ~IsBlank(l.line)

hasScript(r) == Len(r.script) > 0 /\ \E i \in 1..Len(r.script) : LineHasText(r.script[i])

\* characterMap.get(id): the name of the last character with that id
characterMapGet(r, id) ==
  LET at == {i \in 1..Len(r.characters) : r.characters[i].id = id}
  IN  IF at = {} THEN S0 ELSE r.characters[SetMax(at)].name

scriptLine(r, l) ==
  LET name == characterMapGet(r, l.characterId)
      charName == IF name = S0 THEN UnknownCharacter ELSE name
  IN  charName \o LineText2 \o l.line \o LineText3
        \o (IF l.emotion = S0 THEN NotSpecified ELSE l.emotion) \o LineText4
        \o (IF l.tone = S0 THEN NotSpecified ELSE l.tone) \o LineText5

scriptContent(r) ==
  LET kept == SelectSeq(r.script, LineHasText)
  IN  join([i \in 1..Len(kept) |-> scriptLine(r, kept[i])], <<"\n">>)

\* the instruction text sent as `contents`
userPrompt(r) ==
  IF r.type = NARRATION
  THEN NarrationText1 \o r.scenario \o NarrationText2 \o r.persona \o NarrationText3
         \o r.emotion \o NarrationText4 \o r.tone \o NarrationText5 \o r.environment
         \o NarrationText6 \o durationConstraint(r.duration)
  ELSE IF hasScript(r)
  THEN FormatText1 \o r.scenario \o FormatText2 \o characterDescriptions(r) \o FormatText3
         \o scriptContent(r) \o FormatText4 \o durationConstraint(r.duration)
  ELSE ScratchText1 \o r.scenario \o ScratchText2 \o characterDescriptions(r)
         \o ScratchText3 \o durationConstraint(r.duration)

\* a schema choice that looks at the script as well as the mode
schemaByScript(r) ==
  IF r.type = NARRATION \/ ~hasScript(r) THEN "NARRATION_SCHEMA" ELSE "DIALOGUE_SCHEMA"
\* the responseSchema sent with it
schema(r) == IF r.type = NARRATION THEN "NARRATION_SCHEMA" ELSE "DIALOGUE_SCHEMA"

\* "Cannot read properties of undefined (reading 'trim')"
TrimOfUndefined ==
  <<"C","a","n","n","o","t"," ","r","e","a","d"," ","p","r","o","p","e","r","t","i","e","s"," ",
    "o","f"," ","u","n","d","e","f","i","n","e","d"," ","(","r","e","a","d","i","n","g"," ","'",
    "t","r","i","m","'",")">>

\* "Cannot read properties of null (reading '"
ReadingOfNull1 ==
  <<"C","a","n","n","o","t"," ","r","e","a","d"," ","p","r","o","p","e","r","t","i","e","s"," ",
    "o","f"," ","n","u","l","l"," ","(","r","e","a","d","i","n","g"," ","'">>

\* "')"
ReadingOfNull2 ==
  <<"'",")">>

\* 'integrated_text'
integrated_text ==
  <<"i","n","t","e","g","r","a","t","e","d","_","t","e","x","t">>

\* 'persona'
K_persona ==
  <<"p","e","r","s","o","n","a">>

\* 'emotion'
K_emotion ==
  <<"e","m","o","t","i","o","n">>

\* 'tone'
K_tone ==
  <<"t","o","n","e">>

\* 'environment'
K_environment ==
  <<"e","n","v","i","r","o","n","m","e","n","t">>

\* 'error'
K_error ==
  <<"e","r","r","o","r">>

\* 'message'
K_message ==
  <<"m","e","s","s","a","g","e">>

-----------------------------------------------------------------------------
(* The model call boundary and the service functions' handling of its answer *)

\* What `await ai.models.generateContent(...)` settles with:
\*   "text"    fulfilled, response.text is the string `text`
\*   "notext"  fulfilled, response.text is undefined (no candidate text)
\*   "error"   rejected with an Error whose message is `message`
\*   "thrown"  rejected with a value that is no Error
ApiText(s) == [kind |-> "text", text |-> s, message |-> S0]
ApiNoText == [kind |-> "notext", text |-> S0, message |-> S0]
ApiError(m) == [kind |-> "error", text |-> S0, message |-> m]
ApiThrown == [kind |-> "thrown", text |-> S0, message |-> S0]

\* What a service function hands its caller: a value, or a thrown Error.
Return(v, integrated) == [ok |-> TRUE, value |-> v, integrated |-> integrated, message |-> S0]
Throw(m) == [ok |-> FALSE, value |-> JUndefined, integrated |-> JUndefined, message |-> m]

\* the TypeError of reading member k of null
ReadingOfNull(k) == ReadingOfNull1 \o k \o ReadingOfNull2

\* a generatePrompt that reports a parse failure without its diagnostic
generatePromptSettleOpaque(api) ==
  CASE api.kind = "error" -> Throw(GeminiApiError \o api.message)
    [] api.kind = "thrown" -> Throw(UnknownError)
    [] api.kind = "notext" -> Throw(GeminiApiError \o TrimOfUndefined)
    [] OTHER ->
         LET jsonText == trim(api.text)
             parsed == JSONparse(jsonText)
             parsedJson == parsed.v
         IN  IF ~parsed.ok THEN Throw(UnknownError)
             ELSE IF Throws(parsedJson)
                  THEN Throw(GeminiApiError \o ReadingOfNull(integrated_text))
             ELSE Return(parsedJson,
                         OrElse(Get(parsedJson, integrated_text), JStr(FallbackIntegrated)))
\* generatePrompt, lines 119-143
generatePromptSettle(api) ==
  CASE api.kind = "error" -> Throw(GeminiApiError \o api.message)
    [] api.kind = "thrown" -> Throw(UnknownError)
    [] api.kind = "notext" -> Throw(GeminiApiError \o TrimOfUndefined)
    [] OTHER ->
         LET jsonText == trim(api.text)
             parsed == JSONparse(jsonText)
             parsedJson == parsed.v
         IN  IF ~parsed.ok THEN Throw(GeminiApiError \o parsed.message)
             ELSE IF Throws(parsedJson)
                  THEN Throw(GeminiApiError \o ReadingOfNull(integrated_text))
             ELSE Return(parsedJson,
                         OrElse(Get(parsedJson, integrated_text), JStr(FallbackIntegrated)))

\* generateScenarioSuggestion, lines 146-161
generateScenarioSuggestionSettle(api) ==
  IF api.kind = "text" THEN Return(JStr(trim(api.text)), JUndefined)
  ELSE Throw(ScenarioSuggestionFailed)

\* generateNarratorDetailsSuggestion, lines 174-201
generateNarratorDetailsSuggestionSettle(api) ==
  IF api.kind = "text" /\ JSONparse(trim(api.text)).ok
  THEN Return(JSONparse(trim(api.text)).v, JUndefined)
  ELSE Throw(NarratorDetailsFailed)

\* generateImageTouchSuggestion, lines 203-218
generateImageTouchSuggestionSettle(api) ==
  IF api.kind = "text" THEN Return(JStr(trim(api.text)), JUndefined)
  ELSE Throw(ImageTouchFailed)

-----------------------------------------------------------------------------
(* AppContent: the form session *)

\* Localized UI strings of ./i18n (UI_TEXT[lang]), each an opaque text
T_errorCharacterNeeded == <<"T.errorCharacterNeeded">>
T_errorUnexpected == <<"T.errorUnexpected">>
T_errorSuggestion == <<"T.errorSuggestion">>
T_errorScenarioNeeded == <<"T.errorScenarioNeeded">>
T_errorCharacterInfoNeeded == <<"T.errorCharacterInfoNeeded">>
T_geminiErrorPrefix == <<"T.geminiErrorPrefix">>

Character(id, name, per, touch) ==
  [id |-> id, name |-> name, persona |-> per, imageTouch |-> touch]
ScriptLine(id, cid, line, emo, ton) ==
  [id |-> id, characterId |-> cid, line |-> line, emotion |-> emo, tone |-> ton]
CharId(n) == "char-" \o ToString(n)
LineId(n) == "line-" \o ToString(n)

\* An outstanding model call: the service function called, the session (appKey)
\* whose handler awaits it, and what the handler passed.
Call(kind, key, request, text, characterId) ==
  [kind |-> kind, key |-> key, request |-> request, text |-> text,
   characterId |-> characterId]
NoApi == [kind |-> NullStr, text |-> S0, message |-> S0]
Settled(kind, api, returned) == [kind |-> kind, api |-> api, returned |-> returned]
NoSettled == Settled(NullStr, NoApi, Throw(S0))

CharIds == {characters[i].id : i \in 1..Len(characters)}
LineIds == {script[i].id : i \in 1..Len(script)}
CharacterById(id) == characters[CHOOSE i \in 1..Len(characters) : characters[i].id = id]

\* useState initial values (lines 178-202)
Init ==
  /\ appKey = 1
  /\ speechType = NARRATION
  /\ scenario = S0 /\ scenarioTheme = S0 /\ duration = S0 /\ numberOfSections = S0
  /\ persona = S0 /\ emotion = S0 /\ tone = S0 /\ environment = S0
  /\ characters = <<Character(CharId(1), S0, S0, S0), Character(CharId(2), S0, S0, S0)>>
  /\ script = <<ScriptLine(LineId(3), "", S0, S0, S0)>>
  /\ generatedPrompts = NullObj
  /\ isLoading = FALSE
  /\ error = NullText
  /\ isSuggesting = NullStr
  /\ suggestingImageTouch = NullStr
  /\ calls = EmptyBag
  /\ nextId = 3
  /\ settled = NoSettled

\* ---- plain field setters (onChange handlers and the mode buttons)
SetSpeechType(t) ==
  /\ speechType' = t
  /\ UNCHANGED <<appKey, scenario, scenarioTheme, duration, numberOfSections, persona,
                 emotion, tone, environment, characters, script, uiVars, calls, nextId>>
  /\ settled' = NoSettled
SetScenario(v) ==
  /\ scenario' = v
  /\ UNCHANGED <<appKey, speechType, scenarioTheme, duration, numberOfSections, persona,
                 emotion, tone, environment, characters, script, uiVars, calls, nextId>>
  /\ settled' = NoSettled
SetScenarioTheme(v) ==
  /\ scenarioTheme' = v
  /\ UNCHANGED <<appKey, speechType, scenario, duration, numberOfSections, persona,
                 emotion, tone, environment, characters, script, uiVars, calls, nextId>>
  /\ settled' = NoSettled
SetDuration(v) ==
  /\ duration' = v
  /\ UNCHANGED <<appKey, speechType, scenario, scenarioTheme, numberOfSections, persona,
                 emotion, tone, environment, characters, script, uiVars, calls, nextId>>
  /\ settled' = NoSettled
SetNumberOfSections(v) ==
  /\ numberOfSections' = v
  /\ UNCHANGED <<appKey, speechType, scenario, scenarioTheme, duration, persona,
                 emotion, tone, environment, characters, script, uiVars, calls, nextId>>
  /\ settled' = NoSettled
\* setPersona, setEmotion, setTone, setEnvironment (narration form)
SetNarratorField(field, v) ==
  /\ speechType = NARRATION
  /\ persona' = IF field = "persona" THEN v ELSE persona
  /\ emotion' = IF field = "emotion" THEN v ELSE emotion
  /\ tone' = IF field = "tone" THEN v ELSE tone
  /\ environment' = IF field = "environment" THEN v ELSE environment
  /\ UNCHANGED <<appKey, speechType, scenario, scenarioTheme, duration, numberOfSections,
                 characters, script, uiVars, calls, nextId>>
  /\ settled' = NoSettled

\* ---- characters and script lines (lines 204-213)
handleAddCharacter ==
  /\ nextId < MaxIds
  /\ Len(characters) < MaxChars
  /\ characters' = Append(characters, Character(CharId(nextId + 1), S0, S0, S0))
  /\ nextId' = nextId + 1
  /\ UNCHANGED <<appKey, speechType, scenario, scenarioTheme, duration, numberOfSections,
                 persona, emotion, tone, environment, script, uiVars, calls>>
  /\ settled' = NoSettled

RemoveCharacter(cs, id) == SelectSeq(cs, LAMBDA c : c.id # id)
\* a removal that leaves the script as it is
KeepCharacter(ls, id) == ls
ClearCharacter(ls, id) ==
  [i \in 1..Len(ls) |-> IF ls[i].characterId = id THEN [ls[i] EXCEPT !.characterId = ""]
                        ELSE ls[i]]
handleRemoveCharacter(id) ==
  /\ characters' = RemoveCharacter(characters, id)
  /\ script' = ClearCharacter(script, id)
  /\ UNCHANGED <<appKey, speechType, scenario, scenarioTheme, duration, numberOfSections,
                 persona, emotion, tone, environment, uiVars, calls, nextId>>
  /\ settled' = NoSettled

ChangeCharacter(cs, id, field, value) ==
  [i \in 1..Len(cs) |-> IF cs[i].id = id THEN [cs[i] EXCEPT ![field] = value] ELSE cs[i]]
handleCharacterChange(id, field, value) ==
  /\ characters' = ChangeCharacter(characters, id, field, value)
  /\ UNCHANGED <<appKey, speechType, scenario, scenarioTheme, duration, numberOfSections,
                 persona, emotion, tone, environment, script, uiVars, calls, nextId>>
  /\ settled' = NoSettled

handleAddScriptLine ==
  /\ nextId < MaxIds
  /\ Len(script) < MaxLines
  /\ script' = Append(script, ScriptLine(LineId(nextId + 1), "", S0, S0, S0))
  /\ nextId' = nextId + 1
  /\ UNCHANGED <<appKey, speechType, scenario, scenarioTheme, duration, numberOfSections,
                 persona, emotion, tone, environment, characters, uiVars, calls>>
  /\ settled' = NoSettled

RemoveScriptLine(ls, id) == SelectSeq(ls, LAMBDA l : l.id # id)
handleRemoveScriptLine(id) ==
  /\ script' = RemoveScriptLine(script, id)
  /\ UNCHANGED <<appKey, speechType, scenario, scenarioTheme, duration, numberOfSections,
                 persona, emotion, tone, environment, characters, uiVars, calls, nextId>>
  /\ settled' = NoSettled

\* an update that writes the field of every line
ChangeEveryLine(ls, id, field, value) ==
  [i \in 1..Len(ls) |-> [ls[i] EXCEPT ![field] = value]]
ChangeScript(ls, id, field, value) ==
  [i \in 1..Len(ls) |-> IF ls[i].id = id THEN [ls[i] EXCEPT ![field] = value] ELSE ls[i]]
handleScriptChange(id, field, value) ==
  /\ script' = ChangeScript(script, id, field, value)
  /\ UNCHANGED <<appKey, speechType, scenario, scenarioTheme, duration, numberOfSections,
                 persona, emotion, tone, environment, characters, uiVars, calls, nextId>>
  /\ settled' = NoSettled

\* the options of a script line's character <select> (lines 470-473)
OfferedCharacters ==
  {""} \cup {characters[i].id : i \in {j \in 1..Len(characters) : characters[j].name # S0}}

\* ---- handleSubmit (lines 215-241)
\* a filter that asks for a name only
HasName(c) == ~IsBlank(c.name)
HasBoth(c) == ~IsBlank(c.name) /\ ~IsBlank(c.persona)
finalCharacters == SelectSeq(characters, HasBoth)
\* a filter that asks for text only
HasText(l) == ~IsBlank(l.line)
IsSubmitted(l) == ~IsBlank(l.line) /\ l.characterId # ""
\* a filter that hands the kept lines over last to first
finalScriptReversed ==
  LET kept == SelectSeq(script, IsSubmitted)
  IN  [i \in 1..Len(kept) |-> kept[Len(kept) + 1 - i]]
finalScript == SelectSeq(script, IsSubmitted)
buildRequest ==
  IF speechType = NARRATION
  THEN Request(NARRATION, scenario, persona, emotion, tone, environment, <<>>, <<>>,
               duration, numberOfSections)
  ELSE Request(speechType, scenario, S0, S0, S0, S0, finalCharacters, finalScript,
               duration, numberOfSections)

\* a submission that leaves the displayed result in place
handleSubmitKeepingResult ==
  /\ error' = IF speechType # NARRATION /\ Len(finalCharacters) = 0
              THEN T_errorCharacterNeeded ELSE NullText
  /\ generatedPrompts' = generatedPrompts
  /\ IF speechType # NARRATION /\ Len(finalCharacters) = 0
     THEN /\ isLoading' = FALSE
          /\ calls' = calls
     ELSE /\ BagCardinality(calls) < MaxCalls
          /\ isLoading' = TRUE
          /\ calls' = calls (+) SetToBag({Call("generate", appKey, buildRequest, S0,
                                                 NullStr)})
  /\ UNCHANGED <<appKey, formVars, isSuggesting, suggestingImageTouch, nextId>>
  /\ settled' = NoSettled
\* the handler up to its await: the validation, then the call to generatePrompt
handleSubmit ==
  /\ error' = IF speechType # NARRATION /\ Len(finalCharacters) = 0
              THEN T_errorCharacterNeeded ELSE NullText
  /\ generatedPrompts' = NullObj
  /\ IF speechType # NARRATION /\ Len(finalCharacters) = 0
     THEN /\ isLoading' = FALSE
          /\ calls' = calls
     ELSE /\ BagCardinality(calls) < MaxCalls
          /\ isLoading' = TRUE
          /\ calls' = calls (+) SetToBag({Call("generate", appKey, buildRequest, S0,
                                                 NullStr)})
  /\ UNCHANGED <<appKey, formVars, isSuggesting, suggestingImageTouch, nextId>>
  /\ settled' = NoSettled

\* the handler after its await: try / catch / finally over generatePrompt's result
OrText(m, fallback) == IF m = S0 THEN fallback ELSE m
\* a continuation that issues the failed call again
generateSettlesRetrying(c, api) ==
  LET results == generatePromptSettle(api)
  IN  /\ c.kind = "generate"
      /\ calls' = IF results.ok THEN calls (-) SetToBag({c}) ELSE calls
      /\ settled' = Settled("generate", api, results)
      /\ IF c.key = appKey
         THEN /\ generatedPrompts' =
                   IF results.ok
                   THEN [json |-> results.value, integrated |-> results.integrated]
                   ELSE generatedPrompts
              /\ error' = IF results.ok THEN error
                          ELSE OrText(results.message, T_errorUnexpected)
              /\ isLoading' = FALSE
         ELSE UNCHANGED <<generatedPrompts, error, isLoading>>
      /\ UNCHANGED <<appKey, formVars, isSuggesting, suggestingImageTouch, nextId>>
\* a continuation without the finally block: a failure leaves isLoading as it is
generateSettlesNoFinally(c, api) ==
  LET results == generatePromptSettle(api)
  IN  /\ c.kind = "generate"
      /\ calls' = calls (-) SetToBag({c})
      /\ settled' = Settled("generate", api, results)
      /\ IF c.key = appKey
         THEN /\ generatedPrompts' =
                   IF results.ok
                   THEN [json |-> results.value, integrated |-> results.integrated]
                   ELSE generatedPrompts
              /\ error' = IF results.ok THEN error
                          ELSE OrText(results.message, T_errorUnexpected)
              /\ isLoading' = IF results.ok THEN FALSE ELSE isLoading
         ELSE UNCHANGED <<generatedPrompts, error, isLoading>>
      /\ UNCHANGED <<appKey, formVars, isSuggesting, suggestingImageTouch, nextId>>
generateSettles(c, api) ==
  LET results == generatePromptSettle(api)
  IN  /\ c.kind = "generate"
      /\ calls' = calls (-) SetToBag({c})
      /\ settled' = Settled("generate", api, results)
      /\ IF c.key = appKey
         THEN /\ generatedPrompts' =
                   IF results.ok
                   THEN [json |-> results.value, integrated |-> results.integrated]
                   ELSE generatedPrompts
              /\ error' = IF results.ok THEN error
                          ELSE OrText(results.message, T_errorUnexpected)
              /\ isLoading' = FALSE
         ELSE UNCHANGED <<generatedPrompts, error, isLoading>>
      /\ UNCHANGED <<appKey, formVars, isSuggesting, suggestingImageTouch, nextId>>

\* ---- handleScenarioSuggestion (lines 243-255)
handleScenarioSuggestion ==
  IF scenarioTheme = S0
  THEN /\ UNCHANGED <<appKey, formVars, uiVars, calls, nextId>>
       /\ settled' = NoSettled
  ELSE /\ BagCardinality(calls) < MaxCalls
       /\ isSuggesting' = "scenario"
       /\ error' = NullText
       /\ calls' = calls (+) SetToBag({Call("scenario", appKey, NoRequest, scenarioTheme,
                                              NullStr)})
       /\ UNCHANGED <<appKey, formVars, generatedPrompts, isLoading, suggestingImageTouch,
                      nextId>>
       /\ settled' = NoSettled

\* a continuation that writes to whatever session is on the page
scenarioSettlesAnySession(c, api) ==
  LET suggestion == generateScenarioSuggestionSettle(api)
  IN  /\ c.kind = "scenario"
      /\ calls' = calls (-) SetToBag({c})
      /\ settled' = Settled("scenario", api, suggestion)
      /\ scenario' = IF suggestion.ok THEN suggestion.value.s ELSE scenario
      /\ error' = IF suggestion.ok THEN error
                  ELSE OrText(suggestion.message, T_errorSuggestion)
      /\ isSuggesting' = NullStr
      /\ UNCHANGED <<appKey, speechType, scenarioTheme, duration, numberOfSections, persona,
                     emotion, tone, environment, characters, script, generatedPrompts,
                     isLoading, suggestingImageTouch, nextId>>

scenarioSettles(c, api) ==
  LET suggestion == generateScenarioSuggestionSettle(api)
  IN  /\ c.kind = "scenario"
      /\ calls' = calls (-) SetToBag({c})
      /\ settled' = Settled("scenario", api, suggestion)
      /\ IF c.key = appKey
         THEN /\ scenario' = IF suggestion.ok THEN suggestion.value.s ELSE scenario
              /\ error' = IF suggestion.ok THEN error
                          ELSE OrText(suggestion.message, T_errorSuggestion)
              /\ isSuggesting' = NullStr
         ELSE UNCHANGED <<scenario, error, isSuggesting>>
      /\ UNCHANGED <<appKey, speechType, scenarioTheme, duration, numberOfSections, persona,
                     emotion, tone, environment, characters, script, generatedPrompts,
                     isLoading, suggestingImageTouch, nextId>>

\* ---- handleDetailsSuggestion (lines 257-272)
handleDetailsSuggestion ==
  IF scenario = S0
  THEN /\ error' = T_errorScenarioNeeded
       /\ UNCHANGED <<appKey, formVars, generatedPrompts, isLoading, isSuggesting,
                      suggestingImageTouch, calls, nextId>>
       /\ settled' = NoSettled
  ELSE /\ BagCardinality(calls) < MaxCalls
       /\ isSuggesting' = "details"
       /\ error' = NullText
       /\ calls' = calls (+) SetToBag({Call("details", appKey, NoRequest, scenario,
                                              NullStr)})
       /\ UNCHANGED <<appKey, formVars, generatedPrompts, isLoading, suggestingImageTouch,
                      nextId>>
       /\ settled' = NoSettled

\* what setPersona(details.persona) stores: the string, undefined when the
\* member is missing, any other value marked as no string
FieldOf(v) ==
  CASE v.t = "str" -> v.s
    [] v.t = "undefined" -> Undefined
    [] OTHER -> <<"non-string">> \o ToStr(v)
detailsSettles(c, api) ==
  LET ret == generateNarratorDetailsSuggestionSettle(api)
      details == ret.value
      \* details.persona throws when details is null: the catch block takes it
      failed == ~ret.ok \/ Throws(details)
      message == IF ret.ok THEN ReadingOfNull(K_persona) ELSE ret.message
  IN  /\ c.kind = "details"
      /\ calls' = calls (-) SetToBag({c})
      /\ settled' = Settled("details", api, ret)
      /\ IF c.key = appKey
         THEN /\ persona' = IF failed THEN persona ELSE FieldOf(Get(details, K_persona))
              /\ emotion' = IF failed THEN emotion ELSE FieldOf(Get(details, K_emotion))
              /\ tone' = IF failed THEN tone ELSE FieldOf(Get(details, K_tone))
              /\ environment' =
                   IF failed THEN environment ELSE FieldOf(Get(details, K_environment))
              /\ error' = IF failed THEN OrText(message, T_errorSuggestion) ELSE error
              /\ isSuggesting' = NullStr
         ELSE UNCHANGED <<persona, emotion, tone, environment, error, isSuggesting>>
      /\ UNCHANGED <<appKey, speechType, scenario, scenarioTheme, duration,
                     numberOfSections, characters, script, generatedPrompts, isLoading,
                     suggestingImageTouch, nextId>>

\* a handler that asks for the character's name only
handleImageTouchSuggestionByName(characterId) ==
  IF \/ characterId \notin CharIds
     \/ IsBlank(CharacterById(characterId).name)
  THEN /\ error' = T_errorCharacterInfoNeeded
       /\ UNCHANGED <<appKey, formVars, generatedPrompts, isLoading, isSuggesting,
                      suggestingImageTouch, calls, nextId>>
       /\ settled' = NoSettled
  ELSE /\ BagCardinality(calls) < MaxCalls
       /\ suggestingImageTouch' = characterId
       /\ error' = NullText
       /\ calls' = calls (+) SetToBag({Call("imageTouch", appKey, NoRequest,
                                      CharacterById(characterId).name, characterId)})
       /\ UNCHANGED <<appKey, formVars, generatedPrompts, isLoading, isSuggesting, nextId>>
       /\ settled' = NoSettled
\* ---- handleImageTouchSuggestion (lines 274-290)
handleImageTouchSuggestion(characterId) ==
  IF \/ characterId \notin CharIds
     \/ IsBlank(CharacterById(characterId).name)
     \/ IsBlank(CharacterById(characterId).persona)
  THEN /\ error' = T_errorCharacterInfoNeeded
       /\ UNCHANGED <<appKey, formVars, generatedPrompts, isLoading, isSuggesting,
                      suggestingImageTouch, calls, nextId>>
       /\ settled' = NoSettled
  ELSE /\ BagCardinality(calls) < MaxCalls
       /\ suggestingImageTouch' = characterId
       /\ error' = NullText
       /\ calls' = calls (+) SetToBag({Call("imageTouch", appKey, NoRequest,
                                      CharacterById(characterId).name, characterId)})
       /\ UNCHANGED <<appKey, formVars, generatedPrompts, isLoading, isSuggesting, nextId>>
       /\ settled' = NoSettled

\* a continuation that puts back the character it was asked for
imageTouchSettlesRestoring(c, api) ==
  LET suggestion == generateImageTouchSuggestionSettle(api)
  IN  /\ c.kind = "imageTouch"
      /\ calls' = calls (-) SetToBag({c})
      /\ settled' = Settled("imageTouch", api, suggestion)
      /\ IF c.key = appKey
         THEN /\ characters' =
                   IF ~suggestion.ok THEN characters
                   ELSE IF c.characterId \in CharIds
                   THEN ChangeCharacter(characters, c.characterId, "imageTouch",
                                        suggestion.value.s)
                   ELSE Append(characters,
                               Character(c.characterId, c.text, S0, suggestion.value.s))
              /\ error' = IF suggestion.ok THEN error
                          ELSE OrText(suggestion.message, T_errorSuggestion)
              /\ suggestingImageTouch' = NullStr
         ELSE UNCHANGED <<characters, error, suggestingImageTouch>>
      /\ UNCHANGED <<appKey, speechType, scenario, scenarioTheme, duration,
                     numberOfSections, persona, emotion, tone, environment, script,
                     generatedPrompts, isLoading, isSuggesting, nextId>>

imageTouchSettles(c, api) ==
  LET suggestion == generateImageTouchSuggestionSettle(api)
  IN  /\ c.kind = "imageTouch"
      /\ calls' = calls (-) SetToBag({c})
      /\ settled' = Settled("imageTouch", api, suggestion)
      /\ IF c.key = appKey
         THEN /\ characters' =
                   IF suggestion.ok
                   THEN ChangeCharacter(characters, c.characterId, "imageTouch",
                                        suggestion.value.s)
                   ELSE characters
              /\ error' = IF suggestion.ok THEN error
                          ELSE OrText(suggestion.message, T_errorSuggestion)
              /\ suggestingImageTouch' = NullStr
         ELSE UNCHANGED <<characters, error, suggestingImageTouch>>
      /\ UNCHANGED <<appKey, speechType, scenario, scenarioTheme, duration,
                     numberOfSections, persona, emotion, tone, environment, script,
                     generatedPrompts, isLoading, isSuggesting, nextId>>

\* ---- prettyErrorMessage (lines 292-309): what the error box shows
\* a rendering that never decodes the suffix
unparsedErrorMessage ==
  IF error = NullText \/ error = S0 THEN NullText
  ELSE IF startsWith(error, GeminiApiError)
  THEN T_geminiErrorPrefix \o <<":", " ">> \o substring(error, Len(GeminiApiError))
  ELSE error
prettyErrorMessage ==
  IF error = NullText \/ error = S0 THEN NullText
  ELSE IF startsWith(error, GeminiApiError)
  THEN LET jsonPart == substring(error, Len(GeminiApiError))
           parsed == JSONparse(jsonPart)
           \* parsed?.error?.message
           err == IF Throws(parsed.v) THEN JUndefined ELSE Get(parsed.v, K_error)
           msg == IF Throws(err) THEN JUndefined ELSE Get(err, K_message)
       IN  IF ~parsed.ok THEN T_geminiErrorPrefix \o <<":", " ">> \o jsonPart
           ELSE IF Truthy(msg) THEN T_geminiErrorPrefix \o <<":", " ">> \o ToStr(msg)
           ELSE error
  ELSE error

-----------------------------------------------------------------------------
(* The controls of the rendered form: a handler runs when its control is      *)
(* rendered and enabled.                                                      *)

\* <button onClick={handleSubmit} disabled={isLoading}> (line 507)
\* a submit control that is never disabled
SubmitAnyTime == handleSubmit
ClickSubmit == ~isLoading /\ handleSubmit
\* AIScenarioGenerator: disabled={isGenerating || !theme} (lines 29-36, 318)
ClickScenarioSuggestion ==
  /\ isSuggesting # "scenario" /\ scenarioTheme # S0
  /\ handleScenarioSuggestion
\* disabled={isSuggesting === 'details' || !scenario} (lines 372-375)
ClickDetailsSuggestion ==
  /\ speechType = NARRATION
  /\ isSuggesting # "details" /\ scenario # S0
  /\ handleDetailsSuggestion
\* disabled={suggestingImageTouch === char.id || !char.name.trim() ||
\*           !char.persona.trim()} (lines 438-441)
ClickImageTouchSuggestion(id) ==
  /\ speechType # NARRATION
  /\ id \in CharIds
  /\ suggestingImageTouch # id
  /\ ~IsBlank(CharacterById(id).name) /\ ~IsBlank(CharacterById(id).persona)
  /\ handleImageTouchSuggestion(id)
\* the dialogue form's character and script editors (lines 428-484)
ClickAddCharacter == speechType # NARRATION /\ handleAddCharacter
ClickRemoveCharacter(id) == speechType # NARRATION /\ id \in CharIds /\ handleRemoveCharacter(id)
EditCharacter(id, field, value) ==
  speechType # NARRATION /\ id \in CharIds /\ handleCharacterChange(id, field, value)
ClickAddScriptLine == speechType # NARRATION /\ handleAddScriptLine
ClickRemoveScriptLine(id) ==
  speechType # NARRATION /\ id \in LineIds /\ handleRemoveScriptLine(id)
EditScriptLine(id, field, value) ==
  speechType # NARRATION /\ id \in LineIds /\ handleScriptChange(id, field, value)
SelectCharacter(id, cid) ==
  /\ speechType # NARRATION /\ id \in LineIds /\ cid \in OfferedCharacters
  /\ handleScriptChange(id, "characterId", cid)

-----------------------------------------------------------------------------
(* The session: mode switches, the scenario fields, submissions and the       *)
(* scenario and narrator-details suggestions, with their continuations        *)

Typed == {S0, <<"a">>}
Names == {S0, <<"A">>}
Down == <<"d", "o", "w", "n">>
SomeJson == JObj(<< <<integrated_text, JStr(<<"o", "k">>)>> >>)
SomeDetails ==
  JObj(<< <<K_persona, JStr(<<"p">>)>>, <<K_emotion, JStr(<<"e">>)>>,
          <<K_tone, JStr(<<"t">>)>>, <<K_environment, JStr(<<"v">>)>> >>)
GenerateAnswers == {ApiText(stringify(SomeJson)), ApiError(Down)}
ScenarioAnswers == {ApiText(<<"a">>), ApiError(Down)}
DetailsAnswers == {ApiText(stringify(SomeDetails)), ApiError(Down)}

Next ==
  \/ \E t \in SpeechTypes : SetSpeechType(t)
  \/ \E v \in Typed : SetScenario(v)
  \/ \E v \in Typed : SetScenarioTheme(v)
  \/ ClickSubmit
  \/ ClickScenarioSuggestion
  \/ ClickDetailsSuggestion
  \/ \E c \in BagToSet(calls), api \in GenerateAnswers : generateSettles(c, api)
  \/ \E c \in BagToSet(calls), api \in ScenarioAnswers : scenarioSettles(c, api)
  \/ \E c \in BagToSet(calls), api \in DetailsAnswers : detailsSettles(c, api)

Spec == Init /\ [][Next]_vars

\* The same session when no generation call stays outstanding for ever: the
\* model call returns or fails.  Every completion takes the call off the bag,
\* so weak fairness of one completion, the rejected call, states exactly that
\* the await of line 232 ends, with whichever answer.
GenerateCompletes ==
  \E c \in BagToSet(calls) : generateSettles(c, ApiError(Down))
NextLive ==
  \/ \E t \in SpeechTypes : SetSpeechType(t)
  \/ \E v \in Typed : SetScenarioTheme(v)
  \/ ClickSubmit
  \/ ClickScenarioSuggestion
  \/ \E c \in BagToSet(calls), api \in GenerateAnswers : generateSettles(c, api)
  \/ \E c \in BagToSet(calls), api \in ScenarioAnswers : scenarioSettles(c, api)

SpecLive == Init /\ [][NextLive]_vars /\ WF_vars(GenerateCompletes)

-----------------------------------------------------------------------------
(* The dialogue form: the character and script editors *)

NextForm ==
  \/ \E t \in SpeechTypes : SetSpeechType(t)
  \/ \E id \in CharIds, f \in {"name", "persona"}, v \in Names : EditCharacter(id, f, v)
  \/ ClickAddCharacter
  \/ \E id \in CharIds : ClickRemoveCharacter(id)
  \/ ClickAddScriptLine
  \/ \E id \in LineIds : ClickRemoveScriptLine(id)
  \/ \E id \in LineIds, v \in Typed : EditScriptLine(id, "line", v)
  \/ \E id \in LineIds, cid \in OfferedCharacters : SelectCharacter(id, cid)

SpecForm == Init /\ [][NextForm]_vars

-----------------------------------------------------------------------------
(* App: the refresh button remounts AppContent under a new key, while the     *)
(* calls of the sessions before it are still on their way                     *)

\* handleRefresh (lines 539-541) and <AppContent key={appKey}> (line 561): the
\* new AppContent runs its useState initializers, with ids of its own
handleRefresh ==
  /\ appKey < MaxSessions
  /\ appKey' = appKey + 1
  /\ speechType' = NARRATION
  /\ scenario' = S0 /\ scenarioTheme' = S0 /\ duration' = S0 /\ numberOfSections' = S0
  /\ persona' = S0 /\ emotion' = S0 /\ tone' = S0 /\ environment' = S0
  /\ characters' = <<Character(CharId(nextId + 1), S0, S0, S0),
                     Character(CharId(nextId + 2), S0, S0, S0)>>
  /\ script' = <<ScriptLine(LineId(nextId + 3), "", S0, S0, S0)>>
  /\ nextId' = nextId + 3
  /\ generatedPrompts' = NullObj
  /\ isLoading' = FALSE
  /\ error' = NullText
  /\ isSuggesting' = NullStr
  /\ suggestingImageTouch' = NullStr
  /\ calls' = calls
  /\ settled' = NoSettled

NextSession ==
  \/ \E v \in Typed : SetScenarioTheme(v)
  \/ ClickSubmit
  \/ ClickScenarioSuggestion
  \/ handleRefresh
  \/ \E c \in BagToSet(calls), api \in GenerateAnswers : generateSettles(c, api)
  \/ \E c \in BagToSet(calls), api \in ScenarioAnswers : scenarioSettles(c, api)

SpecSession == Init /\ [][NextSession]_vars

-----------------------------------------------------------------------------
(* The Request Builder over filled forms: the form as the user may have left  *)
(* it, then a submission                                                      *)

Letters == <<"A", "B", "C", "D">>
\* the i-th character of a filled form: complete, without a persona (white
\* space only), or without a name
FilledCharacter(i, kind) ==
  Character(CharId(i),
            IF kind = "noname" THEN S0 ELSE <<Letters[i]>>,
            IF kind = "nopersona" THEN <<" ">> ELSE <<"p", Letters[i]>>,
            S0)
CharacterKinds == {"full", "nopersona", "noname"}
FilledCharacters ==
  UNION {{[i \in 1..n |-> FilledCharacter(i, kinds[i])] : kinds \in [1..n -> CharacterKinds]}
         : n \in 0..MaxChars}
\* the i-th script line of a filled form: its text empty, white space only, or
\* words (with white space around them)
FilledLine(i, cid, kind) ==
  ScriptLine(LineId(MaxChars + i), cid,
             CASE kind = "empty" -> S0
               [] kind = "blank" -> <<" ", "\n">>
               [] OTHER -> <<" ", "Z", Letters[i], " ">>,
             IF i = 1 THEN <<"s", "a", "d">> ELSE S0,
             S0)
LineKinds == {"empty", "blank", "text"}
FilledScripts(cs) ==
  LET cids == {""} \cup {cs[i].id : i \in 1..Len(cs)}
  IN  UNION {{[i \in 1..n |-> FilledLine(i, pick[i][1], pick[i][2])]
              : pick \in [1..n -> cids \X LineKinds]} : n \in 0..MaxLines}

\* what may be typed into the duration field
DurationKeys == {"0", "1", "5", "-", ".", "a"}
Durations == UNION {[1..n -> DurationKeys] : n \in 0..MaxDurLen}

\* what may be typed into the section-count field
SectionCounts == {S0, <<"3">>, <<"-", "1">>, <<"x">>}

InitBuilder ==
  /\ appKey = 1
  /\ scenarioTheme = S0
  /\ scenario \in {S0, <<"s", "e", "a">>}
  /\ \/ /\ speechType = NARRATION
        /\ persona \in {S0, <<"p">>} /\ emotion \in {S0, <<"e">>}
        /\ tone \in {S0, <<"t">>} /\ environment \in {S0, <<"v">>}
        /\ duration \in Durations
        /\ numberOfSections \in IF duration = S0 THEN SectionCounts ELSE {S0}
        /\ characters = <<Character(CharId(1), S0, S0, S0), Character(CharId(2), S0, S0, S0)>>
        /\ script = <<ScriptLine(LineId(3), "", S0, S0, S0)>>
     \/ /\ speechType \in {ONE_ON_ONE, MULTI}
        /\ persona = S0 /\ emotion = S0 /\ tone = S0 /\ environment = S0
        /\ duration = S0
        /\ characters \in FilledCharacters
        /\ script \in FilledScripts(characters)
        /\ numberOfSections \in IF script = <<>> THEN SectionCounts ELSE {S0}
  /\ generatedPrompts = NullObj
  /\ isLoading = FALSE
  /\ error = NullText
  /\ isSuggesting = NullStr
  /\ suggestingImageTouch = NullStr
  /\ calls = EmptyBag
  /\ nextId = MaxChars + MaxLines
  /\ settled = NoSettled

NextBuilder == ClickSubmit

SpecBuilder == InitBuilder /\ [][NextBuilder]_vars

-----------------------------------------------------------------------------
(* The Response Normalizer over what the model boundary may answer: a         *)
(* submission, then the continuation of handleSubmit on each answer           *)

MaxPad == 1          \* white-space characters around a response text, each side
Prefixes(s) == {SubSeq(s, 1, n) : n \in 0..Len(s)}
Pads == UNION {[1..n -> {" ", "\n"}] : n \in 0..MaxPad}
Padded(s) == {pre \o s \o post : pre \in Pads, post \in Pads}

Quota == <<"q", "u", "o", "t", "a">>
Scalars == {JNull, JTrue, JFalse, JNum(0), JNum(7), JStr(S0), JStr(<<"o", "k">>)}
ErrorBodies ==
  {JObj(<<>>)} \cup {JObj(<< <<K_message, m>> >>) : m \in Scalars \cup {JStr(Quota)}}
ResponseValues ==
  Scalars \cup {JArr(<<>>), JArr(<< <<S0, JNum(7)>> >>), JObj(<<>>)}
    \cup {JObj(<< <<integrated_text, v>> >>) : v \in Scalars}
    \cup {JObj(<< <<K_error, v>> >>) : v \in Scalars \cup ErrorBodies}
    \cup {JObj(<< <<K_tone, JStr(<<"o", "k">>)>>, <<integrated_text, JStr(<<"h", "\"", "i">>)>> >>),
          JObj(<< <<K_error, JObj(<< <<K_message, JStr(Quota)>> >>)>>,
                  <<integrated_text, JStr(<<"o", "k">>)>> >>)}
\* response texts that are not in serialized form: a key given twice, white
\* space between tokens, -0, escapes, keys that are array indices
NonCanonicalTexts ==
  {<<"{","\"","a","\"",":","1",",","\"","a","\"",":","2","}">>,
    <<"{"," ","\"","b","\""," ",":"," ","["," ","1"," ",","," ","-","0"," ","]"," ",",",
      "\n","\"","1","\"",":","\"","x","\\","/","y","\\","t","z","\""," ","}">>,
    <<"[","{","\"","i","n","t","e","g","r","a","t","e","d","_","t","e","x","t","\"",":",
      "\"","a","\\","n","b","\"","}",",","[","]",",","{","}","]">>,
    <<"{","\"","2","\"",":","0",",","\"","b","\"",":","{","\"","1","0","\"",":","1",",",
      "\"","9","\"",":","2","}",",","\"","1","\"",":","[","[","]","]","}">>}
\* response texts: the serialized values, padded with white space or cut short,
\* and the texts above
ResponseTexts ==
  UNION {Padded(stringify(v)) \cup Prefixes(stringify(v)) : v \in ResponseValues}
    \cup NonCanonicalTexts
\* an SDK error's message: a serialized body, a plain text, a diagnostic
ErrorMessages == ResponseTexts \cup {Down, UnexpectedEnd}
ResponseAnswers ==
  {ApiText(t) : t \in ResponseTexts} \cup {ApiError(m) : m \in ErrorMessages}
    \cup {ApiNoText, ApiThrown}

NextNormalizer ==
  \/ ClickSubmit
  \/ \E c \in BagToSet(calls), api \in ResponseAnswers : generateSettles(c, api)

SpecNormalizer == Init /\ [][NextNormalizer]_vars

-----------------------------------------------------------------------------
(* The narrator-details suggestion over what the model boundary may answer    *)

DetailKeys == <<K_persona, K_emotion, K_tone, K_environment>>
\* an answer with the members DetailKeys[i], i \in has, each holding v
Details(has, v) ==
  JObj([i \in 1..Cardinality(has) |->
          LET k == CHOOSE j \in has : Cardinality({h \in has : h < j}) = i - 1
          IN  <<DetailKeys[k], v>>])
DetailsValues ==
  {JNull, JNum(7), JStr(<<"o", "k">>), JArr(<<>>)}
    \cup {Details(has, JStr(<<"o", "k">>)) : has \in SUBSET (1..4)}
    \cup {Details(1..4, v) : v \in {JStr(S0), JNull, JNum(7)}}
DetailsTexts ==
  {stringify(v) : v \in DetailsValues}
    \cup Padded(stringify(Details(1..4, JStr(<<"o", "k">>))))
    \cup Prefixes(stringify(Details(1..4, JStr(<<"o", "k">>))))
\* the body of a rejected call: { error: { message: "quota" } }
QuotaPayload == stringify(JObj(<< <<K_error, JObj(<< <<K_message, JStr(Quota)>> >>)>> >>))
DetailsResponses ==
  {ApiText(t) : t \in DetailsTexts}
    \cup {ApiError(Down), ApiError(QuotaPayload), ApiNoText, ApiThrown}

NextDetails ==
  \/ \E v \in Typed : SetScenario(v)
  \/ ClickDetailsSuggestion
  \/ \E c \in BagToSet(calls), api \in DetailsResponses : detailsSettles(c, api)

SpecDetails == Init /\ [][NextDetails]_vars

-----------------------------------------------------------------------------
(* The suggestion handlers called as functions, whatever their buttons allow, *)
(* over filled forms                                                          *)

\* the ids a caller may pass: those of the form's characters and one of none
RequestedIds == {CharId(i) : i \in 1..(MaxChars + 1)}
InitHandlers ==
  /\ appKey = 1
  /\ speechType \in {NARRATION, MULTI}
  /\ scenario \in {S0, <<"s", "e", "a">>}
  /\ scenarioTheme = S0 /\ duration = S0 /\ numberOfSections = S0
  /\ persona = S0 /\ emotion = S0 /\ tone = S0 /\ environment = S0
  /\ characters \in FilledCharacters
  /\ script = <<>>
  /\ generatedPrompts = NullObj
  /\ isLoading = FALSE
  /\ error = NullText
  /\ isSuggesting = NullStr
  /\ suggestingImageTouch = NullStr
  /\ calls = EmptyBag
  /\ nextId = MaxChars + 1
  /\ settled = NoSettled
NextHandlers ==
  \/ handleDetailsSuggestion
  \/ \E id \in RequestedIds : handleImageTouchSuggestion(id)
  \/ \E c \in BagToSet(calls), api \in DetailsAnswers : detailsSettles(c, api)
  \/ \E c \in BagToSet(calls), api \in ScenarioAnswers : imageTouchSettles(c, api)

SpecHandlers == InitHandlers /\ [][NextHandlers]_vars

-----------------------------------------------------------------------------
(* The image-touch suggestion while the character list is edited: a dialogue  *)
(* form with two complete characters, requests for either, and characters     *)
(* renamed, removed and added while the calls are outstanding                 *)

InitTouch ==
  /\ appKey = 1
  /\ speechType = MULTI
  /\ scenario = S0 /\ scenarioTheme = S0 /\ duration = S0 /\ numberOfSections = S0
  /\ persona = S0 /\ emotion = S0 /\ tone = S0 /\ environment = S0
  /\ characters = <<FilledCharacter(1, "full"), FilledCharacter(2, "full")>>
  /\ script = <<>>
  /\ generatedPrompts = NullObj
  /\ isLoading = FALSE
  /\ error = NullText
  /\ isSuggesting = NullStr
  /\ suggestingImageTouch = NullStr
  /\ calls = EmptyBag
  /\ nextId = 2
  /\ settled = NoSettled
NextTouch ==
  \/ \E id \in CharIds, v \in Names : EditCharacter(id, "name", v)
  \/ ClickAddCharacter
  \/ \E id \in CharIds : ClickRemoveCharacter(id)
  \/ \E id \in CharIds : ClickImageTouchSuggestion(id)
  \/ \E c \in BagToSet(calls), api \in ScenarioAnswers : imageTouchSettles(c, api)

SpecTouch == InitTouch /\ [][NextTouch]_vars

-----------------------------------------------------------------------------
(* The collection handlers called as functions, with the ids of records that  *)
(* are in the collection and of records that are not                          *)

AnyCharIds == {CharId(n) : n \in 1..MaxIds}
AnyLineIds == {LineId(n) : n \in 1..MaxIds}
CharacterFields == {"name", "persona"}
LineFields == {"line", "emotion"}
NextCollections ==
  \/ \E id \in AnyCharIds, f \in CharacterFields, v \in Names :
       handleCharacterChange(id, f, v)
  \/ \E id \in AnyLineIds, f \in LineFields, v \in Typed : handleScriptChange(id, f, v)
  \/ handleAddCharacter
  \/ \E id \in AnyCharIds : handleRemoveCharacter(id)
  \/ handleAddScriptLine
  \/ \E id \in AnyLineIds : handleRemoveScriptLine(id)

SpecCollections == Init /\ [][NextCollections]_vars

-----------------------------------------------------------------------------
(* Properties                                                                 *)

\* text s holds text p
includes(s, p) ==
  \E i \in 1..(Len(s) - Len(p) + 1) : SubSeq(s, i, i + Len(p) - 1) = p

\* the generation calls outstanding, by the mode of their request
DialogueCalls ==
  {c \in BagToSet(calls) : c.kind = "generate" /\ c.request.type # NARRATION}
NarrationCalls ==
  {c \in BagToSet(calls) : c.kind = "generate" /\ c.request.type = NARRATION}
\* the script lines of the form with text, and those with text and a character
Written == {i \in 1..Len(script) : ~IsBlank(script[i].line)}
Usable == {i \in Written : script[i].characterId # ""}

FromScratchPhrase ==
  <<"G", "e", "n", "e", "r", "a", "t", "e", " ", "a", " ", "c", "o", "m", "p", "l", "e",
    "t", "e", " ", "s", "c", "r", "i", "p", "t", " ", "f", "r", "o", "m", " ", "s", "c",
    "r", "a", "t", "c", "h">>
FormatPhrase ==
  <<"G", "e", "n", "e", "r", "a", "t", "e", " ", "a", "n", "d", " ", "f", "o", "r", "m",
    "a", "t", " ", "a", " ", "s", "p", "e", "e", "c", "h", " ", "p", "r", "o", "m", "p",
    "t">>
UserScriptPhrase ==
  <<"U", "s", "e", "r", "-", "p", "r", "o", "v", "i", "d", "e", "d", " ", "S", "c", "r",
    "i", "p", "t">>
Approximately ==
  <<"a", "p", "p", "r", "o", "x", "i", "m", "a", "t", "e", "l", "y", " ">>
Seconds ==
  <<" ", "s", "e", "c", "o", "n", "d", "s">>

\* C1: a dialogue request handed to generatePrompt gets the from-scratch
\* instruction, with no user script in it, when every script line of the form is
\* blank or unassigned; when some line has text and a character it gets the
\* format-the-script instruction, holding the text of every such line verbatim.
C1_ScriptModes ==
  \A c \in DialogueCalls :
    IF Usable = {}
    THEN /\ includes(userPrompt(c.request), FromScratchPhrase)
         /\ ~includes(userPrompt(c.request), FormatPhrase)
         /\ ~includes(userPrompt(c.request), UserScriptPhrase)
         /\ \A i \in Written : ~includes(userPrompt(c.request), script[i].line)
    ELSE /\ includes(userPrompt(c.request), FormatPhrase)
         /\ includes(userPrompt(c.request), UserScriptPhrase)
         /\ ~includes(userPrompt(c.request), FromScratchPhrase)
         /\ \A i \in Usable : includes(userPrompt(c.request), script[i].line)
\* C1 witness: a dialogue request is out whose form has a line with text and a
\* character next to a line with text and no character.
C1_Witness == DialogueCalls # {} /\ Usable # {} /\ Written \ Usable # {}

\* the duration strings that write a positive integer in decimal digits
IsPositiveInteger(s) ==
  /\ s # S0
  /\ \A i \in 1..Len(s) : IsDigit(s[i])
  /\ DigitsValue(s, 1, Len(s)) > 0
\* C2: a narration request's instruction says "approximately D seconds" when
\* the duration string is a positive integer D, and has no duration clause when
\* the duration is absent, not a number (a number followed by other characters
\* and a decimal included) or not positive.
C2_DurationClause ==
  \A c \in NarrationCalls :
    IF IsPositiveInteger(c.request.duration)
    THEN includes(userPrompt(c.request),
                  Approximately
                    \o NatToStr(DigitsValue(c.request.duration, 1, Len(c.request.duration)))
                    \o Seconds)
    ELSE ~includes(userPrompt(c.request), Approximately)

\* no character of the form has both a name and a persona
NoValidCharacter ==
  \A i \in 1..Len(characters) : IsBlank(characters[i].name) \/ IsBlank(characters[i].persona)
\* C3: in dialogue mode a submission with no character that has both a name and
\* a persona sets the error to the need-a-character message, leaves isLoading
\* false and issues no call.
C3_NoCharacterNoCall ==
  [][(speechType # NARRATION /\ NoValidCharacter)
       => (error' = T_errorCharacterNeeded /\ ~isLoading' /\ calls' = EmptyBag)]_vars
\* C3 witness: a dialogue form with characters, none of them complete, has been
\* submitted.
C3_Witness ==
  /\ speechType # NARRATION /\ NoValidCharacter /\ Len(characters) > 0
  /\ error = T_errorCharacterNeeded

\* every script line is unassigned or assigned to a character of the list
NoDanglingCharacter ==
  \A i \in 1..Len(script) : script[i].characterId = "" \/ script[i].characterId \in CharIds
\* a step that removes character id clears it from the lines that referenced it
\* and changes the assignment of no other line
RemovalClears ==
  \A id \in CharIds :
    id \notin {characters'[i].id : i \in 1..Len(characters')}
      => /\ Len(script') = Len(script)
         /\ \A i \in 1..Len(script) :
              script'[i].characterId =
                IF script[i].characterId = id THEN "" ELSE script[i].characterId
\* C4: under every sequence of character and script-line edits, every script
\* line is unassigned or assigned to a character in the list, and removing a
\* character unassigns exactly the lines that referenced it.
C4_NoDanglingReference == []NoDanglingCharacter /\ [][RemovalClears]_vars
\* C4 witness: the first character has been removed while one line is assigned
\* to a remaining character and another line has no character.
C4_Witness ==
  /\ CharId(1) \notin CharIds
  /\ \E i \in 1..Len(script) : script[i].characterId \in CharIds
  /\ \E i \in 1..Len(script) : script[i].characterId = ""

\* a response text that carries the API's error shape { error: { message } }
IsErrorPayload(t) ==
  /\ JSONparse(trim(t)).ok
  /\ Get(JSONparse(trim(t)).v, K_error).t = "obj"
  /\ Get(Get(JSONparse(trim(t)).v, K_error), K_message).t = "str"
\* what generatePrompt gives its caller for a response that does not parse, and
\* for a call the boundary rejected
MalformedOutcomes ==
  {generatePromptSettle(ApiText(t)) : t \in {u \in ResponseTexts : ~JSONparse(trim(u)).ok}}
ExternalOutcomes ==
  {generatePromptSettle(a) : a \in {ApiError(m) : m \in ErrorMessages} \cup {ApiThrown}}
\* C5: generatePrompt ends in one of three outcomes its caller can tell apart:
\* success, an external-service error (the call was rejected, or the response
\* is an error payload) and a malformed-response error (the text did not parse).
C5_ThreeOutcomes ==
  settled.kind = "generate" =>
    /\ settled.api.kind \in {"error", "thrown"}
         => ~settled.returned.ok /\ settled.returned \notin MalformedOutcomes
    /\ (settled.api.kind = "text" /\ IsErrorPayload(settled.api.text))
         => ~settled.returned.ok /\ settled.returned \notin MalformedOutcomes
    /\ (settled.api.kind = "text" /\ ~JSONparse(trim(settled.api.text)).ok)
         => ~settled.returned.ok /\ settled.returned \notin ExternalOutcomes

\* C6: for every response text that parses as JSON, generatePrompt succeeds
\* with json the parsed value and integrated its integrated_text member when it
\* has one, the fixed fallback text otherwise.
C6_ParsedAlwaysSucceeds ==
  (settled.kind = "generate" /\ settled.api.kind = "text"
     /\ JSONparse(trim(settled.api.text)).ok)
    => /\ settled.returned.ok
       /\ settled.returned.value = JSONparse(trim(settled.api.text)).v
       /\ settled.returned.integrated =
            IF HasKey(JSONparse(trim(settled.api.text)).v, integrated_text)
            THEN Get(JSONparse(trim(settled.api.text)).v, integrated_text)
            ELSE JStr(FallbackIntegrated)

\* a details response that is not JSON, or JSON without one of the four members
MalformedDetails(api) ==
  /\ api.kind = "text"
  /\ \/ ~JSONparse(trim(api.text)).ok
     \/ \E i \in 1..Len(DetailKeys) : ~HasKey(JSONparse(trim(api.text)).v, DetailKeys[i])
\* C7: a malformed narrator-details response makes
\* generateNarratorDetailsSuggestion fail, and the handler then sets the error
\* and leaves persona, emotion, tone and environment as they were.
C7_StrictDetails ==
  [][(settled'.kind = "details" /\ MalformedDetails(settled'.api))
       => /\ ~settled'.returned.ok
          /\ error' # NullText
          /\ <<persona, emotion, tone, environment>>'
               = <<persona, emotion, tone, environment>>]_vars

\* the text after the marker of a stored error, and its error.message
ErrorSuffix == substring(error, Len(GeminiApiError))
SuffixMessage ==
  IF Get(JSONparse(ErrorSuffix).v, K_error).t = "obj"
  THEN Get(Get(JSONparse(ErrorSuffix).v, K_error), K_message)
  ELSE JUndefined
\* C8: an error that starts with the marker is shown as the localized prefix
\* followed by the error.message of its suffix when the suffix decodes as JSON
\* with a message, and as the localized prefix followed by the raw suffix when
\* the suffix does not decode; an error without the marker is shown unchanged.
C8_PrettyError ==
  error # NullText =>
    IF startsWith(error, GeminiApiError)
    THEN /\ (JSONparse(ErrorSuffix).ok /\ Truthy(SuffixMessage))
              => prettyErrorMessage = T_geminiErrorPrefix \o <<":", " ">> \o ToStr(SuffixMessage)
         /\ ~JSONparse(ErrorSuffix).ok
              => prettyErrorMessage = T_geminiErrorPrefix \o <<":", " ">> \o ErrorSuffix
    ELSE prettyErrorMessage = error
\* C8 witness: the stored error is the marker followed by a JSON body whose
\* error.message is a text.
C8_Witness ==
  /\ error # NullText /\ startsWith(error, GeminiApiError)
  /\ JSONparse(ErrorSuffix).ok /\ SuffixMessage = JStr(Quota)

\* the generation calls of this session that are outstanding
Generating == {c \in BagToSet(calls) : c.kind = "generate" /\ c.key = appKey}
\* C9: at most one generation call of the session is outstanding, and while it
\* is isLoading is true and the submit control is disabled, whatever else the
\* user does meanwhile.
C9_OneGeneration ==
  /\ Cardinality(Generating) <= 1
  /\ \A c \in Generating : CopiesIn(c, calls) = 1
  /\ Generating # {} => isLoading /\ ~ENABLED ClickSubmit
\* C9 witness: a generation call and a suggestion call are outstanding together.
C9_Witness ==
  Generating # {} /\ \E c \in BagToSet(calls) : c.kind \in {"scenario", "details"}

\* the outstanding calls of one suggestion kind, counted with repetitions
Suggesting(kind) == {c \in BagToSet(calls) : c.kind = kind /\ c.key = appKey}
\* C10: while a scenario or narrator-details suggestion call is outstanding its
\* control stays disabled, so no two calls of one kind are out at once.
C10_OneSuggestionPerKind ==
  \A kind \in {"scenario", "details"} :
    /\ Suggesting(kind) # {} => isSuggesting = kind
    /\ Cardinality(Suggesting(kind)) <= 1
    /\ \A c \in Suggesting(kind) : CopiesIn(c, calls) = 1

\* C11: every submission clears the displayed result and the earlier error
\* before the outcome of the new attempt is known; the result stays cleared
\* while the attempt is outstanding, and a failed attempt ends with no result,
\* the error set and isLoading false.
C11_SubmitClearsResult ==
  /\ [](Generating # {} => generatedPrompts = NullObj)
  /\ [][/\ ClickSubmit
             => /\ generatedPrompts' = NullObj
                /\ error' \in {NullText, T_errorCharacterNeeded}
        /\ (settled'.kind = "generate" /\ ~settled'.returned.ok)
             => /\ generatedPrompts' = NullObj
                /\ error' # NullText
                /\ ~isLoading']_vars
\* C11 witness: a generation attempt has just failed, with the error set and no
\* result displayed.
C11_Witness ==
  /\ settled.kind = "generate" /\ ~settled.returned.ok
  /\ error # NullText /\ generatedPrompts = NullObj /\ ~isLoading

\* C12: a model call is issued only by a user action that passed its local
\* validation, one call per such action; a continuation takes its own call off
\* and issues none, so a failed call is never issued again by the program.
C12_NoAutomaticReissue ==
  [][/\ (ClickSubmit /\ (speechType = NARRATION \/ ~NoValidCharacter))
          => BagCardinality(calls') = BagCardinality(calls) + 1
     /\ (ClickSubmit /\ speechType # NARRATION /\ NoValidCharacter) => calls' = calls
     /\ ClickScenarioSuggestion => BagCardinality(calls') = BagCardinality(calls) + 1
     /\ ClickDetailsSuggestion => BagCardinality(calls') = BagCardinality(calls) + 1
     /\ settled'.kind # NullStr
          => /\ BagCardinality(calls') = BagCardinality(calls) - 1
             /\ calls' \sqsubseteq calls
     /\ BagCardinality(calls') > BagCardinality(calls)
          => ClickSubmit \/ ClickScenarioSuggestion \/ ClickDetailsSuggestion]_vars
\* C12 witness: a scenario suggestion has just failed and no call is
\* outstanding.
C12_Witness ==
  settled.kind = "scenario" /\ ~settled.returned.ok /\ calls = EmptyBag

\* the error.message of the payload a rejected call carried
PayloadMessage(api) ==
  ToStr(Get(Get(JSONparse(trim(api.message)).v, K_error), K_message))
\* C13: when an external call of any kind fails with an error payload that has
\* an error.message, the error shown to the user contains that error.message.
C13_PayloadMessageShown ==
  (/\ settled.kind # NullStr
   /\ settled.api.kind = "error"
   /\ IsErrorPayload(settled.api.message))
    => /\ prettyErrorMessage # NullText
       /\ includes(prettyErrorMessage, PayloadMessage(settled.api))

\* the generation response that has just been handled did not parse
ParseFailed ==
  /\ settled.kind = "generate"
  /\ settled.api.kind = "text"
  /\ ~JSONparse(trim(settled.api.text)).ok
\* C14: when the response text of a generation call does not parse, the call
\* fails and the message of the failure, which becomes the stored error,
\* contains the diagnostic of the parser.
C14_ParseDiagnostic ==
  ParseFailed =>
    /\ ~settled.returned.ok
    /\ includes(settled.returned.message, JSONparse(trim(settled.api.text)).message)
    /\ error = settled.returned.message
    /\ generatedPrompts = NullObj
\* C14 witness: a response cut short has been handled and the stored error
\* holds the parser's diagnostic of an unexpected end.
C14_Witness ==
  /\ ParseFailed
  /\ JSONparse(trim(settled.api.text)).message = UnexpectedEnd
  /\ error # NullText /\ includes(error, UnexpectedEnd)

\* no character has the id, or the one that has it lacks a name or a persona
LacksCharacterInfo(id) ==
  \A i \in 1..Len(characters) :
    characters[i].id = id
      => trim(characters[i].name) = S0 \/ trim(characters[i].persona) = S0
\* C15: a narrator-details request without a scenario, and an image-touch
\* request for a character that is missing or has a blank name or persona,
\* set the error to the matching validation message, issue no call and leave
\* isSuggesting, suggestingImageTouch and every form field unchanged.
C15_RejectedSuggestionRequests ==
  [][/\ (handleDetailsSuggestion /\ scenario = S0)
          => /\ error' = T_errorScenarioNeeded
             /\ UNCHANGED <<calls, isSuggesting, suggestingImageTouch, formVars>>
     /\ \A id \in RequestedIds :
          (handleImageTouchSuggestion(id) /\ LacksCharacterInfo(id))
            => /\ error' = T_errorCharacterInfoNeeded
               /\ UNCHANGED <<calls, isSuggesting, suggestingImageTouch, formVars>>]_vars
\* C15 witness: an image-touch request has been rejected on a form that has a
\* named character without a persona, and nothing is in progress.
C15_Witness ==
  /\ error = T_errorCharacterInfoNeeded
  /\ \E i \in 1..Len(characters) :
       trim(characters[i].name) # S0 /\ trim(characters[i].persona) = S0
  /\ calls = EmptyBag /\ suggestingImageTouch = NullStr /\ isSuggesting = NullStr

\* C16: a Narration submission becomes a model call only when scenario,
\* persona, emotion, tone and environment are all non-empty.
C16_NarrationComplete ==
  \A c \in NarrationCalls :
    /\ c.request.scenario # S0
    /\ c.request.persona # S0
    /\ c.request.emotion # S0
    /\ c.request.tone # S0
    /\ c.request.environment # S0

\* the labels of the narration instruction's lines
ScenarioLabel ==
  <<"-"," ","S","c","e","n","a","r","i","o",":"," ">>
PersonaLabel ==
  <<"-"," ","N","a","r","r","a","t","o","r","'","s"," ","P","e","r","s","o","n","a",":"," ">>
EmotionLabel ==
  <<"-"," ","P","r","i","m","a","r","y"," ","E","m","o","t","i","o","n",":"," ">>
ToneLabel ==
  <<"-"," ","V","o","c","a","l"," ","T","o","n","e","s",":"," ">>
EnvironmentLabel ==
  <<"-"," ","E","n","v","i","r","o","n","m","e","n","t",":"," ">>
\* the first position from i on that holds no space
RECURSIVE SkipIndent(_, _)
SkipIndent(text, i) ==
  IF i <= Len(text) /\ text[i] = " " THEN SkipIndent(text, i + 1) ELSE i
\* text holds a line of its own made of, after its indentation, the label and
\* the value
HasLabeledLine(text, label, value) ==
  \E i \in 1..Len(text) :
    /\ text[i] = "\n"
    /\ LET from == SkipIndent(text, i + 1)
           to == from + Len(label) + Len(value)
       IN  /\ to <= Len(text)
           /\ text[to] = "\n"
           /\ SubSeq(text, from, to - 1) = label \o value
\* C17: the schema sent with a generation request depends on its mode alone:
\* a Narration request goes with the Narration schema and an instruction that
\* holds scenario, persona, emotion, tone and environment each on a labeled
\* line of its own; a one-on-one or multi request goes with the Dialogue
\* schema, with a script to format and without one.
C17_SchemaByMode ==
  /\ \A c \in NarrationCalls :
       LET text == userPrompt(c.request)
       IN  /\ schema(c.request) = "NARRATION_SCHEMA"
           /\ HasLabeledLine(text, ScenarioLabel, c.request.scenario)
           /\ HasLabeledLine(text, PersonaLabel, c.request.persona)
           /\ HasLabeledLine(text, EmotionLabel, c.request.emotion)
           /\ HasLabeledLine(text, ToneLabel, c.request.tone)
           /\ HasLabeledLine(text, EnvironmentLabel, c.request.environment)
  /\ \A c \in DialogueCalls : schema(c.request) = "DIALOGUE_SCHEMA"
\* C17 witness: a Narration request with its five fields filled is outstanding.
C17_Witness ==
  \E c \in NarrationCalls :
    /\ c.request.scenario # S0 /\ c.request.persona # S0 /\ c.request.emotion # S0
    /\ c.request.tone # S0 /\ c.request.environment # S0
    /\ schema(c.request) = "NARRATION_SCHEMA"

\* the texts that write a decimal number, and those that write a positive one
IsNumeral(s) ==
  /\ s # S0
  /\ LET body == IF s[1] = "-" THEN Tail(s) ELSE s
     IN  /\ \A i \in 1..Len(body) : IsDigit(body[i]) \/ body[i] = "."
         /\ Cardinality({i \in 1..Len(body) : body[i] = "."}) <= 1
         /\ \E i \in 1..Len(body) : IsDigit(body[i])
IsPositiveNumeral(s) ==
  /\ IsNumeral(s)
  /\ s[1] # "-"
  /\ \E i \in 1..Len(s) : IsDigit(s[i]) /\ s[i] # "0"
Complete ==
  {i \in 1..Len(characters) :
     trim(characters[i].name) # S0 /\ trim(characters[i].persona) # S0}
\* the k-th smallest member of a set of positions
Nth(S, k) == CHOOSE i \in S : Cardinality({j \in S : j < i}) = k - 1
\* C19: a dialogue request holds exactly the characters with a non-blank name
\* and persona and exactly the script lines with non-blank text and a
\* character id, unchanged and in the order of the form.
C19_ExactSelection ==
  \A c \in DialogueCalls :
    /\ c.request.characters = [k \in 1..Cardinality(Complete) |-> characters[Nth(Complete, k)]]
    /\ c.request.script = [k \in 1..Cardinality(Usable) |-> script[Nth(Usable, k)]]
\* C19 witness: a dialogue request is out that left a character and a script
\* line of the form behind and kept a line.
C19_Witness ==
  \E c \in DialogueCalls :
    /\ Len(c.request.characters) < Len(characters)
    /\ Len(c.request.script) < Len(script)
    /\ Len(c.request.script) >= 1

\* the text shown and copied for the result on display
ShownJson == stringifyIndented(generatedPrompts.json)
\* C20: serializing the json of a result, parsing that text and serializing
\* again gives the same text: the text shown for a result parses, and what it
\* parses to serializes to it.
C20_SerializeIdempotent ==
  generatedPrompts # NullObj =>
    /\ JSONparse(ShownJson).ok
    /\ stringifyIndented(JSONparse(ShownJson).v) = ShownJson
\* C20 witness: the result of a response that was not in serialized form, with
\* a quote to escape in it or more than one member, is on display.
C20_Witness ==
  /\ generatedPrompts # NullObj
  /\ settled.kind = "generate"
  /\ trim(settled.api.text) # ShownJson
  /\ generatedPrompts.json.t = "obj" /\ Len(generatedPrompts.json.kv) >= 2
  /\ \E i \in 1..Len(generatedPrompts.json.kv) :
       /\ generatedPrompts.json.kv[i][2].t = "str"
       /\ \E k \in 1..Len(generatedPrompts.json.kv[i][2].s) :
            generatedPrompts.json.kv[i][2].s[k] \in {"\"", "\t", "\n", "\\"}

\* the calls a step took off the bag of outstanding calls
Completed == {c \in BagToSet(calls) : CopiesIn(c, calls') < CopiesIn(c, calls)}
\* the state of a form nobody has touched
FreshForm ==
  /\ speechType = NARRATION
  /\ scenario = S0 /\ scenarioTheme = S0 /\ duration = S0 /\ numberOfSections = S0
  /\ persona = S0 /\ emotion = S0 /\ tone = S0 /\ environment = S0
  /\ Len(characters) = 2
  /\ \A i \in 1..2 :
       characters[i].name = S0 /\ characters[i].persona = S0 /\ characters[i].imageTouch = S0
  /\ characters[1].id # characters[2].id
  /\ Len(script) = 1
  /\ script[1].characterId = "" /\ script[1].line = S0
  /\ script[1].emotion = S0 /\ script[1].tone = S0
  /\ generatedPrompts = NullObj /\ error = NullText /\ ~isLoading
  /\ isSuggesting = NullStr /\ suggestingImageTouch = NullStr
\* C21: a refresh leaves every form and UI variable at its initial value, and
\* the completion or failure of a call that an earlier session issued changes
\* nothing of the session on the page.
C21_FreshSession ==
  [][/\ appKey' # appKey => FreshForm'
     /\ \A c \in Completed : c.key # appKey => UNCHANGED <<appKey, formVars, uiVars>>]_vars
\* C21 witness: in the second session a generation call of the first has
\* succeeded, and the second session shows no result and is not loading.
C21_Witness ==
  /\ appKey = 2
  /\ settled.kind = "generate" /\ settled.returned.ok
  /\ generatedPrompts = NullObj /\ ~isLoading

\* C22: in a dialogue request every script line's characterId is the id of a
\* character of the same request, so the instruction names no line's speaker
\* by the placeholder.
C22_LinesHaveCharacters ==
  \A c \in DialogueCalls :
    /\ \A i \in 1..Len(c.request.script) :
         \E j \in 1..Len(c.request.characters) :
           c.request.characters[j].id = c.request.script[i].characterId
    /\ ~includes(userPrompt(c.request), UnknownCharacter)

\* the pieces of a script line of the instruction
OpenQuote == <<":", " ", "\"">>
EmotionPart == <<"\"", " ", "(", "E", "m", "o", "t", "i", "o", "n", ":", " ">>
TonePart == <<",", " ", "T", "o", "n", "e", ":", " ">>
ClosePart == <<")">>
NotSpecifiedWords == <<"n", "o", "t", " ", "s", "p", "e", "c", "i", "f", "i", "e", "d">>
RosterDash == <<"-", " ">>
RosterColon == <<":", " ">>
\* the name the form gives the character of script line i
SpeakerName(i) ==
  LET at == {j \in 1..Len(characters) : characters[j].id = script[i].characterId}
  IN  IF at = {} THEN S0 ELSE characters[CHOOSE j \in at : TRUE].name
\* script line i as the instruction should show it
ExpectedLine(i) ==
  SpeakerName(i) \o OpenQuote \o script[i].line \o EmotionPart
    \o (IF script[i].emotion = S0 THEN NotSpecifiedWords ELSE script[i].emotion)
    \o TonePart
    \o (IF script[i].tone = S0 THEN NotSpecifiedWords ELSE script[i].tone)
    \o ClosePart
\* the lines of the usable script lines, and of the complete characters, each
\* list in the order of the form and one item per line
ExpectedScript ==
  join([k \in 1..Cardinality(Usable) |-> ExpectedLine(Nth(Usable, k))], <<"\n">>)
ExpectedRoster ==
  join([k \in 1..Cardinality(Complete) |->
          RosterDash \o characters[Nth(Complete, k)].name \o RosterColon
            \o characters[Nth(Complete, k)].persona], <<"\n">>)
\* C23: the instruction that formats a script lists the lines that have text in
\* their order, one per line, each as the name of its character, the text as
\* entered in quotes and the emotion and tone (or "not specified"), and lists
\* the request's characters as "- name: persona" in their order.
C23_ScriptListing ==
  \A c \in DialogueCalls :
    Usable # {} =>
      /\ includes(userPrompt(c.request), <<"\n">> \o ExpectedScript \o <<"\n">>)
      /\ includes(userPrompt(c.request), <<"\n">> \o ExpectedRoster \o <<"\n">>)

\* C24: an error that begins with the marker is shown with the localized
\* prefix in the marker's place, whatever follows the marker.
C24_MarkerReplaced ==
  (error # NullText /\ startsWith(error, GeminiApiError))
    => /\ startsWith(prettyErrorMessage, T_geminiErrorPrefix \o <<":", " ">>)
       /\ ~startsWith(prettyErrorMessage, GeminiApiError)

\* C25: a generation attempt ends: isLoading, once true, becomes false; it is
\* true only while the attempt's call is outstanding; and the step that ends
\* the attempt records the result and leaves the error alone on success, or
\* records the error and leaves no result on failure.
C25_AttemptEnds ==
  /\ isLoading ~> ~isLoading
  /\ [](isLoading <=> Generating # {})
  /\ [][settled'.kind = "generate"
          => /\ ~isLoading'
             /\ IF settled'.returned.ok
                THEN generatedPrompts' # NullObj /\ error' = error
                ELSE error' # NullText /\ generatedPrompts' = NullObj]_vars
\* C25 witness: a generation attempt has just ended in success, with the
\* result on display and isLoading false.
C25_Witness ==
  /\ settled.kind = "generate" /\ settled.returned.ok
  /\ generatedPrompts # NullObj /\ ~isLoading /\ Generating = {}

\* C26: a result and an error are never on display together: whenever the
\* result slot holds a result the error slot is null.
C26_ResultOrError ==
  generatedPrompts # NullObj => error = NullText

\* C27: each indicator is set exactly while its call is outstanding:
\* isSuggesting names the kind of every suggestion call of the session that is
\* outstanding, suggestingImageTouch the character of every image-touch call,
\* and an indicator that is set has its call outstanding.
C27_IndicatorsFollowCalls ==
  /\ \A c \in BagToSet(calls) :
       c.key = appKey =>
         /\ c.kind \in {"scenario", "details"} => isSuggesting = c.kind
         /\ c.kind = "imageTouch" => suggestingImageTouch = c.characterId
  /\ isSuggesting # NullStr => Suggesting(isSuggesting) # {}
  /\ suggestingImageTouch # NullStr
       => \E c \in Suggesting("imageTouch") : c.characterId = suggestingImageTouch

\* a stored value the viewers can iterate: an Array, which has a length (the
\* viewers read prompts.length and call prompts.map), with an element
IsPromptList(v) == "length" \in DOMAIN v /\ v.length >= 1
\* C28: after a successful generation the stored result is a non-empty list
\* of prompts.
C28_ResultIsList ==
  generatedPrompts # NullObj => IsPromptList(generatedPrompts)

\* C29: the completion of an image-touch call changes nothing of the form but
\* the imageTouch of the character that has the call's id now: the list keeps
\* its length and order, every character its id, name and persona, every other
\* character its imageTouch; when no character has the id the list is unchanged.
C29_ImageTouchFrame ==
  [][\A c \in Completed :
       (c.kind = "imageTouch" /\ c.key = appKey) =>
         /\ Len(characters') = Len(characters)
         /\ \A i \in 1..Len(characters) :
              /\ characters'[i].id = characters[i].id
              /\ characters'[i].name = characters[i].name
              /\ characters'[i].persona = characters[i].persona
              /\ characters[i].id # c.characterId
                   => characters'[i].imageTouch = characters[i].imageTouch
              /\ (characters[i].id = c.characterId /\ settled'.returned.ok)
                   => characters'[i].imageTouch = trim(settled'.api.text)
              /\ ~settled'.returned.ok => characters'[i] = characters[i]
         /\ UNCHANGED <<speechType, scenario, scenarioTheme, duration, numberOfSections,
                        persona, emotion, tone, environment, script>>]_vars
\* C29 witness: an image-touch call has succeeded after its character was
\* removed, and no character of the list has an image touch.
C29_Witness ==
  /\ settled.kind = "imageTouch" /\ settled.returned.ok
  /\ Len(characters) >= 1
  /\ \A i \in 1..Len(characters) : characters[i].imageTouch = S0

\* the fields of a character and of a script line
AllCharacterFields == {"id", "name", "persona", "imageTouch"}
AllLineFields == {"id", "characterId", "line", "emotion", "tone"}
\* list new is list old with field f of the records whose id is id set to v,
\* and nothing else changed
OnlyFieldChanged(old, new, fields, id, f, v) ==
  /\ Len(new) = Len(old)
  /\ \A i \in 1..Len(old), g \in fields :
       new[i][g] = IF old[i].id = id /\ g = f THEN v ELSE old[i][g]
  /\ (\A i \in 1..Len(old) : old[i].id # id) => new = old
\* list new is list old with one record added at the end
Appended(old, new) ==
  /\ Len(new) = Len(old) + 1
  /\ \A i \in 1..Len(old) : new[i] = old[i]
  /\ \A i \in 1..Len(old) : new[Len(new)].id # old[i].id
\* list new is list old without the records whose id is id, the others in
\* their order
Removed(old, new, id) ==
  LET rest == {i \in 1..Len(old) : old[i].id # id}
  IN  /\ Len(new) = Cardinality(rest)
      /\ \A k \in 1..Len(new) : new[k] = old[Nth(rest, k)]
\* C30: handleCharacterChange and handleScriptChange change the named field of
\* the record with the id and nothing else, and nothing at all when no record
\* has the id; adding a record puts it at the end; removing a record keeps the
\* others in their order.
C30_UpdateById ==
  [][/\ \A id \in AnyCharIds, f \in CharacterFields, v \in Names :
          handleCharacterChange(id, f, v)
            => /\ OnlyFieldChanged(characters, characters', AllCharacterFields, id, f, v)
               /\ script' = script
     /\ \A id \in AnyLineIds, f \in LineFields, v \in Typed :
          handleScriptChange(id, f, v)
            => /\ OnlyFieldChanged(script, script', AllLineFields, id, f, v)
               /\ characters' = characters
     /\ handleAddCharacter => Appended(characters, characters') /\ script' = script
     /\ handleAddScriptLine => Appended(script, script') /\ characters' = characters
     /\ \A id \in AnyCharIds :
          handleRemoveCharacter(id) => Removed(characters, characters', id)
     /\ \A id \in AnyLineIds :
          handleRemoveScriptLine(id)
            => Removed(script, script', id) /\ characters' = characters]_vars
\* C30 witness: of two script lines the second has been edited and the first
\* is as it was, and of two characters the first has a name and the second
\* has none.
C30_Witness ==
  /\ Len(script) = 2 /\ script[1].line = S0 /\ script[2].line # S0
  /\ Len(characters) = 2 /\ characters[1].name # S0 /\ characters[2].name = S0

=============================================================================
